---- MODULE Spec2Model ----
(***************************************************************************)
(* Verification model of the TabSorter semantic grouping engine:           *)
(*   - RealAIProcessor (offscreen document): initialization state machine, *)
(*     embedding generation with its bounded cache, greedy clustering;     *)
(*   - the offscreen lifecycle manager (startInitialization, message       *)
(*     handler, visibilitychange);                                         *)
(*   - TabManager (background service worker): offscreen set-up and the    *)
(*     domain-only fallback.                                               *)
(*                                                                         *)
(* JavaScript is single threaded: every action below is one run-to-        *)
(* completion segment of a handler, from its start or from an await to the *)
(* next await.                                                             *)
(*                                                                         *)
(* Numbers.  Vector components are fixed-point in units of 1/Unit and      *)
(* similarities in units of 1/SimScale.  As the floating-point operations  *)
(* of the code do, a square root or a division yields a representable      *)
(* value next to the exact one; on vectors whose squared norm is a perfect *)
(* square both are exact.  A vector is a record [dim, lead]: its length    *)
(* and its leading components, every other component being 0.              *)
(***************************************************************************)
EXTENDS Integers, Sequences, FiniteSets, TLC

VARIABLES
    \* ---- RealAIProcessor fields
    currentState, stateDetails, session, tokenizerData, modelReady,
    embeddingCache, initInProgress, initPromise, readyEmitted,
    \* ---- lifecycle manager (IIFE) locals
    initStarted, initCompleted,
    \* ---- environment of the offscreen document
    ortDefined,      \* typeof ort !== 'undefined'
    model,           \* the packaged files: the network's hidden size, its
                     \* output names and, for each text, the mean of the
                     \* hidden states it produces; whether ort-paths.js
                     \* set window.ortPreConfig
    \* ---- control state
    initPc,          \* the await performInitialization is suspended at
    runs,            \* the promise of every performInitialization run so far
    callers,         \* the callers of initialize(): position and outcome
    inflight,        \* generateEmbedding calls suspended at their await
    sent,            \* notifications emitted through window.Messaging?.send,
                     \* in order
    batch,           \* the generateEmbeddings / groupTabsBySimilarity call
    returned,        \* what generateEmbedding returned to message handlers
    \* ---- background service worker (TabManager)
    bg

vars == << currentState, stateDetails, session, tokenizerData, modelReady,
           embeddingCache, initInProgress, initPromise, readyEmitted,
           initStarted, initCompleted, ortDefined, model, initPc, runs,
           callers, inflight, sent, batch, returned, bg >>

-----------------------------------------------------------------------------
(* Bounds of the model *)

MaxInitMsgs == 1      \* INIT_AI messages received in one document lifetime
MaxAttempts == 2      \* performInitialization runs in one document lifetime
MaxInflight == 1      \* embedding requests suspended at session.run at once
MaxTabs     == 4      \* tabs in one grouping request
MaxSends    == 2      \* sendMessage calls of utils/messaging in one behaviour
MaxSorts    == 3      \* TabSorterBackground.sortTabs calls in one behaviour

(* Program constants *)

CacheLimit   == 500   \* embeddingCache.size > 500 evicts
EmbeddingDim == 384   \* expected embedding length
Unit         == 5     \* fixed point: a component c stands for c / Unit
SimScale     == 100   \* fixed point: a similarity s stands for s / SimScale

Null == "null"                           \* null / undefined, for names
NullEmbedding == [ dim |-> -1, lead |-> << >> ]   \* null, for a vector
NoSession == [ hidden |-> 0, outputNames |-> << >> ]   \* this.session = null

-----------------------------------------------------------------------------
(* this.states *)

BOOT            == "BOOT"
ORT_CONFIGURED  == "ORT_CONFIGURED"
WASM_READY      == "WASM_READY"
SESSION_READY   == "SESSION_READY"
TOKENIZER_READY == "TOKENIZER_READY"
WARMED_UP       == "WARMED_UP"
READY           == "READY"
ERROR           == "ERROR"

States == { BOOT, ORT_CONFIGURED, WASM_READY, SESSION_READY, TOKENIZER_READY,
            WARMED_UP, READY, ERROR }

(* The stages performInitialization runs, in order *)
Stages == << ORT_CONFIGURED, WASM_READY, SESSION_READY, TOKENIZER_READY,
             WARMED_UP, READY >>

\* getResourceForStage(stage): resourceMap[stage] || null
getResourceForStage(stage) ==
    CASE stage = ORT_CONFIGURED  -> "ort.min.js"
      [] stage = WASM_READY      -> "ort-wasm-simd.wasm"
      [] stage = SESSION_READY   -> "model_quantized.onnx"
      [] stage = TOKENIZER_READY -> "tokenizer.json"
      [] OTHER                   -> Null

\* createErrorEnvelope(stage, error, resource): the 'ai:error' envelope.
\* err names the error object; run is the attempt that emitted it.
createErrorEnvelope(stage, err, run) ==
    [ type |-> "ai:error", stage |-> stage, error |-> err,
      resource |-> getResourceForStage(stage), origin |-> "emitError",
      run |-> run ]

(* The processor fields a stage step updates are threaded through the     *)
(* helpers below as a record st = [cs, sd, out, run]: currentState,       *)
(* stateDetails, the messages sent so far and the running attempt.        *)

\* emitError(stage, details): window.Messaging.send('ai:error', envelope)
emitError(st, stage, err) ==
    [ st EXCEPT !.out = Append(@, createErrorEnvelope(stage, err, st.run)) ]

\* logStage(stage, status, details): only status 'FAIL' has an effect
logStage(st, stage, status, err) ==
    IF status = "FAIL" THEN emitError(st, stage, err) ELSE st

\* { ...this.stateDetails, ...details }
MergeDetails(sd, details) ==
    [ k \in DOMAIN sd |-> IF k \in DOMAIN details THEN details[k] ELSE sd[k] ]

\* window.Messaging?.send without the optional chaining: a missing adapter
\* is a TypeError in the caller
MessagingSend_NoOptionalChaining(transport) ==
    [ handed |-> transport # "missing", threw |-> transport = "missing" ]

\* window.Messaging?.send(type, payload), not awaited: whether the adapter
\* takes the message and whether the call throws into its caller.  Without
\* an adapter the optional chaining skips the call; send is an async
\* function whose body catches, and sendViaChrome catches a throwing
\* chrome.runtime.sendMessage and ignores chrome.runtime.lastError.
MessagingSend(transport) ==
    CASE transport = "missing" -> [ handed |-> FALSE, threw |-> FALSE ]
      [] transport = "failing" -> [ handed |-> TRUE, threw |-> FALSE ]
      [] OTHER                 -> [ handed |-> TRUE, threw |-> FALSE ]

\* broadcastStateChange(): window.Messaging?.send('ai:status', {state, details})
broadcastStateChange(st) ==
    [ st EXCEPT !.out = Append(@,
        [ type |-> "ai:status", stage |-> st.cs, error |-> Null,
          resource |-> Null, origin |-> "broadcastStateChange",
          run |-> st.run,
          handed |-> MessagingSend(model.transport).handed,
          threw |-> MessagingSend(model.transport).threw ]) ]

\* validateMilestone(state, details): the validator's verdict, which the
\* code only logs.  ort.env.wasm.wasmPaths is set by window.ortPreConfig
\* only; inputNames and outputNames of a session are arrays, which are
\* truthy also when empty.
validateMilestone(state, details, sess, tok) ==
    CASE state = ORT_CONFIGURED  -> ortDefined /\ model.preConfig
      [] state = WASM_READY      -> /\ "wasmVariant" \in DOMAIN details
                                    /\ details.wasmVariant # Null
      [] state = SESSION_READY   -> sess # NoSession
      [] state = TOKENIZER_READY -> tok # Null
      [] state = WARMED_UP       -> /\ "testEmbedding" \in DOMAIN details
                                    /\ details.testEmbedding = "successful"
      [] state = READY           -> /\ "allStagesCompleted" \in DOMAIN details
                                    /\ details.allStagesCompleted = "true"
      [] OTHER                   -> TRUE

\* transitionToState(newState, details)
transitionToState(st, newState, details) ==
    broadcastStateChange(
        [ st EXCEPT !.cs = newState, !.sd = MergeDetails(@, details) ])

\* catch block of performInitialization.  The details object is built
\* before transitionToState runs, so its stage is the state the processor
\* was in when the stage failed; emitError then reads this.currentState
\* after the transition.
performInitializationCatch(st, err) ==
    LET t == transitionToState(st, ERROR, [ error |-> err, stage |-> st.cs ])
    IN  emitError(t, t.cs, err)

\* inner catch of one stage followed by the outer catch
FailStage(st, stage, err) ==
    performInitializationCatch(logStage(st, stage, "FAIL", err), err)

NoDetails == [ stage |-> Null, error |-> Null, wasmVariant |-> Null,
               testEmbedding |-> Null, allStagesCompleted |-> Null ]

-----------------------------------------------------------------------------
(* Vectors and the embedding cache *)

Vec(x, y) == [ dim |-> EmbeddingDim, lead |-> << x, y >> ]

\* new Array(384).fill(0)
ZeroVector == Vec(0, 0)

\* Math.sqrt: the representable value nearest to the square root
RECURSIVE SqrtFrom(_, _)
SqrtFrom(n, r) == IF (r + 1) * (r + 1) > n THEN r ELSE SqrtFrom(n, r + 1)
Sqrt(n) == LET r == SqrtFrom(n, 0) IN IF n - r * r > r THEN r + 1 ELSE r

RECURSIVE SumSeq(_)
SumSeq(s) == IF s = << >> THEN 0 ELSE Head(s) + SumSeq(Tail(s))

Dot(a, b) == SumSeq([ i \in 1..Len(a) |-> a[i] * b[i] ])

\* generateEmbedding without its normalisation loop
L2Normalize_Skipped(pooled) == pooled

\* mean pooling and L2 normalisation of generateEmbedding: pooled is the
\* mean-pooled hidden state; it is divided by its norm unless the norm is 0.
L2Normalize(pooled) ==
    LET norm == Sqrt(Dot(pooled, pooled))
    IN  IF norm > 0
        THEN [ i \in 1..Len(pooled) |-> (pooled[i] * Unit) \div norm ]
        ELSE pooled

\* the vector generateEmbedding computes for text on a session whose
\* hidden size is hidden
ComputeEmbedding(text, hidden) ==
    [ dim |-> hidden, lead |-> L2Normalize(model.pooled[text]) ]

\* embeddingCache is a Map: a sequence of entries in insertion order
CacheHas(cache, text) == \E i \in 1..Len(cache) : cache[i].key = text

CacheGet(cache, text) ==
    cache[CHOOSE i \in 1..Len(cache) : cache[i].key = text].value

\* a Map whose set() files a new key before all others
CacheSet_Prepends(cache, text, value) ==
    IF CacheHas(cache, text)
    THEN [ i \in 1..Len(cache) |->
             IF cache[i].key = text THEN [ key |-> text, value |-> value ]
             ELSE cache[i] ]
    ELSE << [ key |-> text, value |-> value ] >> \o cache

\* Map.prototype.set: an existing key keeps its position
CacheSet(cache, text, value) ==
    IF CacheHas(cache, text)
    THEN [ i \in 1..Len(cache) |->
             IF cache[i].key = text THEN [ key |-> text, value |-> value ]
             ELSE cache[i] ]
    ELSE Append(cache, [ key |-> text, value |-> value ])

\* the cache write without the eviction that follows it
CacheWrite_NoEviction(cache, text, value) == CacheSet(cache, text, value)

\* cache write and eviction of generateEmbedding
CacheWrite(cache, text, value) ==
    LET c == CacheSet(cache, text, value)
    IN  IF Len(c) > CacheLimit THEN Tail(c) ELSE c

-----------------------------------------------------------------------------
(* The offscreen document: RealAIProcessor.initialize and its callers *)

StartCaller == 0                       \* startInitialization
InitMsgs    == 1..MaxInitMsgs          \* INIT_AI messages
CallerIds   == { StartCaller } \cup InitMsgs

IdleCaller == [ pos |-> "idle", run |-> 0, outcome |-> Null, err |-> Null ]

Texts == { "warmup test", "self-test input" }

\* hidden sizes the packaged model may have (lastHiddenState.dims[2])
HiddenSizes == { EmbeddingDim, 2 }

\* output names the packaged model may have (session.outputNames)
OutputNames == { << "last_hidden_state" >>, << >> }

\* window.Messaging of the document: the adapter over chrome.runtime, the
\* adapter when chrome.runtime.sendMessage throws or finds no listener,
\* and no adapter at all
Transports == { "chrome", "failing", "missing" }

\* what fetch gives for the runtime's .wasm files: a response that is ok,
\* a response that is not, or a rejection
WasmProbes == { "ok", "not found", "rejected" }

\* mean-pooled hidden states the network may produce
PooledVectors == { << 6, 8 >>, << 5, 0 >>, << 0, 5 >>, << 5, 1 >> }

Proc(run) == [ cs |-> currentState, sd |-> stateDetails, out |-> sent,
               run |-> run ]

Commit(st) ==
    /\ currentState' = st.cs
    /\ stateDetails' = st.sd
    /\ sent' = st.out

Pending == [ status |-> "pending", err |-> Null, failed |-> Null ]
Resolved == [ status |-> "resolved", err |-> Null, failed |-> Null ]
Rejected(stage, err) == [ status |-> "rejected", err |-> err, failed |-> stage ]

ThisRun == Len(runs)

\* a continuation of a settled initialize() call is queued: promise
\* reactions are microtasks, which the document runs before it takes its
\* next event, message or completed request
MicrotaskQueued ==
    \E c \in CallerIds :
        \/ callers[c].pos = "returned"
        \/ /\ callers[c].pos \in { "first", "joined" }
           /\ runs[callers[c].run].status # "pending"

\* a stage of the running attempt failed with err: both catch blocks run
\* and the promise of performInitialization rejects
StageFails(st, stage, err) ==
    /\ Commit(FailStage(st, stage, err))
    /\ runs' = [ runs EXCEPT ![ThisRun] = Rejected(stage, err) ]
    /\ initPc' = "idle"

\* performInitialization that does not return to BOOT when it starts
performInitializationStart_NoBoot ==
    LET run == Len(runs) + 1
        st1 == logStage(Proc(run), ORT_CONFIGURED, "START", Null)
    IN  IF ortDefined
        THEN /\ Commit(st1)
             /\ runs' = Append(runs, Pending)
             /\ initPc' = "configureONNXRuntime"
        ELSE /\ Commit(FailStage(st1, ORT_CONFIGURED, "ort not loaded"))
             /\ runs' = Append(runs, Rejected(ORT_CONFIGURED, "ort not loaded"))
             /\ initPc' = "idle"

\* performInitialization() up to its first await: BOOT and the
\* synchronous configureONNXRuntime
performInitializationStart ==
    LET run == Len(runs) + 1
        st0 == transitionToState(Proc(run), BOOT, << >>)
        st1 == logStage(st0, ORT_CONFIGURED, "START", Null)
    IN  IF ortDefined
        THEN /\ Commit(st1)
             /\ runs' = Append(runs, Pending)
             /\ initPc' = "configureONNXRuntime"
        ELSE /\ Commit(FailStage(st1, ORT_CONFIGURED, "ort not loaded"))
             /\ runs' = Append(runs, Rejected(ORT_CONFIGURED, "ort not loaded"))
             /\ initPc' = "idle"

\* initialize() without the early return in READY
initialize_NoReadyCheck(c) ==
    /\ ~MicrotaskQueued
    /\ callers[c].pos = "idle"
    /\ IF initInProgress
       THEN /\ callers' = [ callers EXCEPT ![c].pos = "joined",
                                           ![c].run = initPromise ]
            /\ UNCHANGED << currentState, stateDetails, sent, runs, initPc,
                            initInProgress, initPromise >>
       ELSE /\ Len(runs) < MaxAttempts
            /\ initInProgress' = TRUE
            /\ initPromise' = Len(runs) + 1
            /\ performInitializationStart
            /\ callers' = [ callers EXCEPT ![c].pos = "first",
                                           ![c].run = Len(runs) + 1 ]

\* initialize() without the initInProgress check: every call that finds the
\* processor not READY starts its own performInitialization
initialize_NoLock(c) ==
    /\ ~MicrotaskQueued
    /\ callers[c].pos = "idle"
    /\ IF currentState = READY
       THEN /\ callers' = [ callers EXCEPT ![c].pos = "returned" ]
            /\ UNCHANGED << currentState, stateDetails, sent, runs, initPc,
                            initInProgress, initPromise >>
       ELSE /\ Len(runs) < MaxAttempts
            /\ initInProgress' = TRUE
            /\ initPromise' = Len(runs) + 1
            /\ performInitializationStart
            /\ callers' = [ callers EXCEPT ![c].pos = "first",
                                           ![c].run = Len(runs) + 1 ]

\* initialize() called by caller c, up to its first await
initialize(c) ==
    /\ ~MicrotaskQueued
    /\ callers[c].pos = "idle"
    /\ IF initInProgress
       THEN /\ callers' = [ callers EXCEPT ![c].pos = "joined",
                                           ![c].run = initPromise ]
            /\ UNCHANGED << currentState, stateDetails, sent, runs, initPc,
                            initInProgress, initPromise >>
       ELSE IF currentState = READY
       THEN /\ callers' = [ callers EXCEPT ![c].pos = "returned" ]
            /\ UNCHANGED << currentState, stateDetails, sent, runs, initPc,
                            initInProgress, initPromise >>
       ELSE /\ Len(runs) < MaxAttempts
            /\ initInProgress' = TRUE
            /\ initPromise' = Len(runs) + 1
            /\ performInitializationStart
            /\ callers' = [ callers EXCEPT ![c].pos = "first",
                                           ![c].run = Len(runs) + 1 ]

\* startInitialization() up to its await
startInitialization ==
    IF initStarted
    THEN UNCHANGED vars
    ELSE /\ initStarted' = TRUE
         /\ initialize(StartCaller)
         /\ UNCHANGED << session, tokenizerData, modelReady, embeddingCache,
                         readyEmitted, initCompleted, ortDefined, model,
                         inflight, batch, returned, bg >>

\* DOMContentLoaded: onDocumentReady
OnDocumentReady == startInitialization

\* visibilitychange with visibilityState 'visible'
VisibilityChange ==
    IF ~initCompleted /\ currentState \in { ERROR, BOOT }
    THEN startInitialization
    ELSE UNCHANGED vars

\* messageHandler, case 'INIT_AI', up to its await
InitAI(c) ==
    /\ c \in InitMsgs
    /\ initialize(c)
    /\ UNCHANGED << session, tokenizerData, modelReady, embeddingCache,
                    readyEmitted, initStarted, initCompleted, ortDefined,
                    model, inflight, batch, returned, bg >>

\* CallerResume with the 'ai:ready' notification sent by every caller whose
\* initialize() succeeded, without consulting readyEmitted
CallerResume_EveryCallerNotifies(c) ==
    LET me      == callers[c]
        settled == IF me.pos = "returned" THEN Resolved ELSE runs[me.run]
        ok      == settled.status = "resolved"
    IN  /\ me.pos \in { "first", "joined", "returned" }
        /\ settled.status # "pending"
        /\ initInProgress' = IF me.pos = "first" THEN FALSE ELSE initInProgress
        /\ callers' = [ callers EXCEPT ![c] =
              [ pos |-> "done", run |-> me.run, outcome |-> settled.status,
                err |-> settled.err ] ]
        /\ initCompleted' = IF c = StartCaller THEN ok ELSE initCompleted
        /\ readyEmitted' = (readyEmitted \/ ok)
        /\ sent' = Append(sent,
              [ type |-> IF ok THEN "ai:ready" ELSE "ai:error",
                stage |-> currentState, error |-> settled.err,
                resource |-> Null, origin |-> "startInitialization",
                run |-> me.run ])
        /\ UNCHANGED << currentState, stateDetails, session, tokenizerData,
                        modelReady, embeddingCache, initPromise, initStarted,
                        ortDefined, model, initPc, runs, inflight, batch,
                        returned, bg >>

\* The promise caller c awaits has settled: the rest of initialize()
\* (finally) and of the caller (startInitialization or the INIT_AI case).
CallerResume(c) ==
    LET me      == callers[c]
        settled == IF me.pos = "returned" THEN Resolved ELSE runs[me.run]
        ok      == settled.status = "resolved"
    IN  /\ me.pos \in { "first", "joined", "returned" }
        /\ settled.status # "pending"
        /\ initInProgress' = IF me.pos = "first" THEN FALSE ELSE initInProgress
        /\ callers' = [ callers EXCEPT ![c] =
              [ pos |-> "done", run |-> me.run, outcome |-> settled.status,
                err |-> settled.err ] ]
        /\ IF c = StartCaller
           THEN /\ initCompleted' = ok
                /\ IF ok
                   THEN /\ readyEmitted' = TRUE
                        /\ sent' = IF readyEmitted THEN sent
                                   ELSE Append(sent,
                                     [ type |-> "ai:ready", stage |-> currentState,
                                       error |-> Null, resource |-> Null,
                                       origin |-> "startInitialization",
                                       run |-> me.run ])
                   ELSE /\ sent' = Append(sent,
                              [ type |-> "ai:error", stage |-> currentState,
                                error |-> settled.err, resource |-> Null,
                                origin |-> "startInitialization",
                                run |-> me.run ])
                        /\ UNCHANGED readyEmitted
           ELSE UNCHANGED << initCompleted, readyEmitted, sent >>
        /\ UNCHANGED << currentState, stateDetails, session, tokenizerData,
                        modelReady, embeddingCache, initPromise, initStarted,
                        ortDefined, model, initPc, runs, inflight, batch,
                        returned, bg >>

-----------------------------------------------------------------------------
(* generateEmbedding *)

\* the guard of generateEmbedding: throws 'AI model not ready'
ModelNotReady == ~modelReady \/ session = NoSession

\* A generateEmbedding call suspended at its await.  On a cache hit the
\* stored vector is already the result (cached); on a miss it is waiting
\* for session.run on the session current at the call.
EmbedCall(kind, text, cache) ==
    [ kind |-> kind, text |-> text, hidden |-> session.hidden,
      outputs |-> session.outputNames,
      ready |-> currentState = READY,
      cached |-> CacheHas(cache, text),
      value |-> IF CacheHas(cache, text)
                THEN CacheGet(cache, text) ELSE NullEmbedding ]

\* results.last_hidden_state is defined: the session has that output
HasHiddenState(e) ==
    \E k \in 1..Len(e.outputs) : e.outputs[k] = "last_hidden_state"

\* the vector call e returns when session.run resolves (ok) or rejects:
\* the catch block turns every failure, a missing last_hidden_state
\* included, into null
EmbedValue(e, ok) ==
    IF e.cached THEN e.value
    ELSE IF ok /\ HasHiddenState(e) THEN ComputeEmbedding(e.text, e.hidden)
    ELSE NullEmbedding

\* a cache write of the pooled vector before its normalisation
EmbedCache_StoresPooled(cache, e, ok) ==
    IF ~e.cached /\ ok /\ HasHiddenState(e)
    THEN CacheWrite(cache, e.text, [ dim |-> e.hidden, lead |-> model.pooled[e.text] ])
    ELSE cache

\* a catch block that files the substitute of generateEmbeddings under the
\* text whose inference failed
EmbedCache_StoresZeroOnFailure(cache, e, ok) ==
    IF e.cached THEN cache
    ELSE IF ok /\ HasHiddenState(e)
    THEN CacheWrite(cache, e.text, ComputeEmbedding(e.text, e.hidden))
    ELSE CacheWrite(cache, e.text, ZeroVector)

\* the cache call e leaves: only a successful miss writes
EmbedCache(cache, e, ok) ==
    IF ~e.cached /\ ok /\ HasHiddenState(e)
    THEN CacheWrite(cache, e.text, ComputeEmbedding(e.text, e.hidden))
    ELSE cache

RemoveAt(s, i) == SubSeq(s, 1, i - 1) \o SubSeq(s, i + 1, Len(s))

\* What the generateEmbedding calls of the message handlers returned: the
\* last return, and for every text the first vector returned for it to a
\* call made in READY.
NoReturn == [ text |-> "", value |-> NullEmbedding, how |-> "none",
              ready |-> FALSE, retry |-> FALSE ]
NoReturns == [ first |-> { }, last |-> NoReturn ]

ReturnedBefore(log, text) == \E r \in log.first : r.text = text

\* generateEmbedding(text) returns value: from the cache (hit) or from
\* inference (ok), or null after a failure
Return(log, text, value, hit, ok, ready) ==
    [ first |-> IF ready /\ value # NullEmbedding /\ ~ReturnedBefore(log, text)
                THEN log.first \cup { [ text |-> text, value |-> value ] }
                ELSE log.first,
      last |-> [ text |-> text, value |-> value, ready |-> ready,
                 retry |-> log.last.how = "failed" /\ log.last.text = text,
                 how |-> IF hit THEN "hit"
                         ELSE IF ~ok THEN "failed"
                         ELSE IF ReturnedBefore(log, text) THEN "recomputed"
                         ELSE "miss" ] ]

RequestSources == { "ai:selftest", "ai:embed", "GENERATE_EMBEDDING" }

\* the message handler's gate of 'ai:embed' and 'GENERATE_EMBEDDING';
\* 'ai:selftest' runs runSelfTest, which calls generateEmbedding ungated
HandlerGate(src) ==
    src \in { "ai:embed", "GENERATE_EMBEDDING" }
        => (currentState = READY /\ modelReady)

\* the request is answered without running generateEmbedding's body
Refused(src) == ~HandlerGate(src) \/ ModelNotReady

Requests == { i \in 1..Len(inflight) : inflight[i].kind = "request" }

\* messageHandler, case 'ai:status': the state, the details and ready are
\* read and passed to sendResponse
StatusQuery ==
    /\ ~MicrotaskQueued
    /\ UNCHANGED vars

\* An embedding request arrives ('ai:embed', 'GENERATE_EMBEDDING' or
\* 'ai:selftest'): it is refused, or answered from the cache, or suspended
\* at session.run.
EmbedRequest(src, text) ==
    /\ ~MicrotaskQueued
    /\ src = "ai:selftest" => text = "self-test input"
    /\ IF Refused(src)
       THEN UNCHANGED << inflight, returned >>
       ELSE IF CacheHas(embeddingCache, text)
       THEN /\ returned' = Return(returned, text,
                                  CacheGet(embeddingCache, text), TRUE, TRUE,
                                  currentState = READY)
            /\ UNCHANGED inflight
       ELSE /\ Cardinality(Requests) < MaxInflight
            /\ inflight' = Append(inflight, EmbedCall("request", text, embeddingCache))
            /\ UNCHANGED returned
    /\ UNCHANGED << currentState, stateDetails, session, tokenizerData,
                    modelReady, embeddingCache, initInProgress, initPromise,
                    readyEmitted, initStarted, initCompleted, ortDefined,
                    model, initPc, runs, callers, sent, batch, bg >>

\* session.run of request i resolved (ok) or rejected
EmbedFinish(i, ok) ==
    /\ ~MicrotaskQueued
    /\ inflight[i].kind = "request"
    /\ embeddingCache' = EmbedCache(embeddingCache, inflight[i], ok)
    /\ inflight' = RemoveAt(inflight, i)
    /\ returned' = Return(returned, inflight[i].text,
                          EmbedValue(inflight[i], ok), FALSE, ok,
                          inflight[i].ready)
    /\ UNCHANGED << currentState, stateDetails, session, tokenizerData,
                    modelReady, initInProgress, initPromise, readyEmitted,
                    initStarted, initCompleted, ortDefined, model, initPc,
                    runs, callers, sent, batch, bg >>

-----------------------------------------------------------------------------
(* performInitialization, one action per await *)

InitFrame == << initInProgress, initPromise, readyEmitted, initStarted,
                initCompleted, ortDefined, model, callers, batch, returned,
                bg >>

\* after await configureONNXRuntime(): ORT_CONFIGURED, then verifyWASMFiles
AfterConfigure ==
    /\ ~MicrotaskQueued
    /\ initPc = "configureONNXRuntime"
    /\ LET st1 == logStage(Proc(ThisRun), ORT_CONFIGURED, "OK", Null)
           st2 == transitionToState(st1, ORT_CONFIGURED, << >>)
           st3 == logStage(st2, WASM_READY, "START", Null)
       IN  Commit(st3)
    /\ initPc' = "verifyWASMFiles"
    /\ UNCHANGED << session, tokenizerData, modelReady, embeddingCache, runs,
                    inflight >>
    /\ UNCHANGED InitFrame

\* verifyWASMFiles that lets the error of a failed probe escape
verifyWASMFiles_Rethrows(wasm) ==
    CASE wasm = "rejected" -> "Failed to fetch"
      [] wasm = "not found" -> "HTTP 404"
      [] OTHER -> Null

\* verifyWASMFiles(): the error it throws, Null when it returns.  Each of
\* the three probes runs in its own try block, which a rejected fetch and
\* the Error thrown for a response that is not ok both leave through the
\* catch that only warns.
verifyWASMFiles(wasm) ==
    CASE wasm = "rejected" -> Null
      [] wasm = "not found" -> Null
      [] OTHER -> Null

\* after await verifyWASMFiles(): WASM_READY, then loadModel
AfterVerifyWASMFiles ==
    /\ ~MicrotaskQueued
    /\ initPc = "verifyWASMFiles"
    /\ IF verifyWASMFiles(model.wasm) # Null
       THEN StageFails(Proc(ThisRun), WASM_READY, verifyWASMFiles(model.wasm))
       ELSE /\ LET st1 == logStage(Proc(ThisRun), WASM_READY, "OK", Null)
                   st2 == transitionToState(st1, WASM_READY,
                              [ wasmVariant |-> "ort-wasm-simd.wasm" ])
                   st3 == logStage(st2, SESSION_READY, "START", Null)
               IN  Commit(st3)
            /\ initPc' = "loadModel"
            /\ UNCHANGED runs
    /\ UNCHANGED << session, tokenizerData, modelReady, embeddingCache,
                    inflight >>
    /\ UNCHANGED InitFrame

\* after await loadModel(): it threw, or this.session is the new session
AfterLoadModel(ok) ==
    /\ ~MicrotaskQueued
    /\ initPc = "loadModel"
    /\ IF ok
       THEN /\ session' = [ hidden |-> model.hidden,
                             outputNames |-> model.outputNames ]
            /\ LET st1 == logStage(Proc(ThisRun), SESSION_READY, "OK", Null)
                   st2 == transitionToState(st1, SESSION_READY, << >>)
                   st3 == logStage(st2, TOKENIZER_READY, "START", Null)
               IN  Commit(st3)
            /\ initPc' = "loadTokenizer"
            /\ UNCHANGED runs
       ELSE /\ StageFails(Proc(ThisRun), SESSION_READY, "model load failed")
            /\ UNCHANGED session
    /\ UNCHANGED << tokenizerData, modelReady, embeddingCache, inflight >>
    /\ UNCHANGED InitFrame

\* after await loadTokenizer(): it threw, or TOKENIZER_READY, modelReady
\* and the start of warmUp's generateEmbedding('warmup test')
AfterLoadTokenizer(ok) ==
    /\ ~MicrotaskQueued
    /\ initPc = "loadTokenizer"
    /\ IF ok
       THEN /\ tokenizerData' = "loaded"
            /\ LET st1 == logStage(Proc(ThisRun), TOKENIZER_READY, "OK", Null)
                   st2 == transitionToState(st1, TOKENIZER_READY, << >>)
                   st3 == logStage(st2, WARMED_UP, "START", Null)
               IN  Commit(st3)
            /\ modelReady' = TRUE
            /\ inflight' = Append(inflight, EmbedCall("warmUp", "warmup test",
                                                  embeddingCache))
            /\ initPc' = "warmUp"
            /\ UNCHANGED runs
       ELSE /\ StageFails(Proc(ThisRun), TOKENIZER_READY, "tokenizer load failed")
            /\ UNCHANGED << tokenizerData, modelReady, inflight >>
    /\ UNCHANGED << session, embeddingCache >>
    /\ UNCHANGED InitFrame

\* warmUp() that accepts an embedding of any length
warmUp_NoLengthCheck(testEmbedding) ==
    IF testEmbedding = NullEmbedding THEN "warm-up returned null" ELSE Null

\* warmUp() once generateEmbedding('warmup test') returned testEmbedding:
\* the error it throws, or null
warmUp(testEmbedding) ==
    IF testEmbedding = NullEmbedding THEN "warm-up returned null"
    ELSE IF testEmbedding.dim # EmbeddingDim THEN "wrong dimensions"
    ELSE Null

\* after await warmUp(): generateEmbedding returned; null or a wrong length
\* throws, otherwise WARMED_UP and READY
AfterWarmUp(i, ok) ==
    /\ ~MicrotaskQueued
    /\ initPc = "warmUp"
    /\ inflight[i].kind = "warmUp"
    /\ inflight[i].cached => ok
    /\ LET value == EmbedValue(inflight[i], ok)
       IN  /\ embeddingCache' = EmbedCache(embeddingCache, inflight[i], ok)
           /\ inflight' = RemoveAt(inflight, i)
           /\ IF warmUp(value) # Null
              THEN StageFails(Proc(ThisRun), WARMED_UP, warmUp(value))
              ELSE /\ LET st1 == logStage(Proc(ThisRun), WARMED_UP, "OK", Null)
                          st2 == transitionToState(st1, WARMED_UP,
                                     [ testEmbedding |-> "successful" ])
                          st3 == logStage(st2, READY, "START", Null)
                          st4 == transitionToState(st3, READY,
                                     [ allStagesCompleted |-> "true" ])
                          st5 == logStage(st4, READY, "OK", Null)
                      IN  Commit(st5)
                   /\ runs' = [ runs EXCEPT ![ThisRun] = Resolved ]
                   /\ initPc' = "idle"
    /\ UNCHANGED << session, tokenizerData, modelReady >>
    /\ UNCHANGED InitFrame

-----------------------------------------------------------------------------
(* Tabs and their text keys *)

\* new URL(tab.url): whether it parses, and url.hostname
UrlValid(url) == url \in { "https://github.com/", "https://www.github.com/x",
                           "https://www.vuejs.org/", "https://example.org/",
                           "https://static-www.example.com/",
                           "https://static-example.com/" }

Hostname(url) ==
    CASE url = "https://github.com/"      -> "github.com"
      [] url = "https://www.github.com/x" -> "www.github.com"
      [] url = "https://www.vuejs.org/"   -> "www.vuejs.org"
      [] url = "https://example.org/"     -> "example.org"
      [] url = "https://static-www.example.com/" -> "static-www.example.com"
      [] url = "https://static-example.com/"     -> "static-example.com"

\* hostname.replace('www.', ''): the first occurrence of 'www.' removed
ReplaceWww(hostname) ==
    CASE hostname = "www.github.com" -> "github.com"
      [] hostname = "www.vuejs.org"  -> "vuejs.org"
      [] hostname = "static-www.example.com" -> "static-example.com"
      [] OTHER                       -> hostname

\* the text groupTabsBySimilarity embeds for a tab (titles carry no
\* leading or trailing blanks, so trim() only removes the separator after
\* an empty title)
TabText(tab) ==
    IF UrlValid(tab.url)
    THEN IF tab.title = "" THEN ReplaceWww(Hostname(tab.url))
         ELSE tab.title \o " " \o ReplaceWww(Hostname(tab.url))
    ELSE IF tab.title # "" THEN tab.title ELSE tab.url

TabPool ==
    << [ id |-> 1, title |-> "React hooks", url |-> "https://github.com/" ],
       [ id |-> 2, title |-> "Vue guide", url |-> "https://www.vuejs.org/" ],
       [ id |-> 3, title |-> "Buy mouse", url |-> "not a url" ],
       [ id |-> 4, title |-> "React hooks", url |-> "https://www.github.com/x" ] >>

\* tab lists of a request: up to MaxTabs distinct tabs, in any order
TabLists ==
    UNION { { l \in [ 1..n -> 1..Len(TabPool) ] :
                \A a, b \in 1..n : a # b => l[a] # l[b] } : n \in 0..MaxTabs }

TabsOf(l) == [ k \in 1..Len(l) |-> TabPool[l[k]] ]

TabTexts == { TabText(TabPool[k]) : k \in 1..Len(TabPool) }

-----------------------------------------------------------------------------
(* Similarity clustering *)

\* cosineSimilarity that takes vectors without length for identical
cosineSimilarity_ZeroIsOne(a, b) ==
    LET dotProduct  == Dot(a.lead, b.lead)
        normA       == Dot(a.lead, a.lead)
        normB       == Dot(b.lead, b.lead)
        denominator == Sqrt(normA) * Sqrt(normB)
    IN  IF denominator > 0 THEN (dotProduct * SimScale) \div denominator
        ELSE SimScale

\* cosineSimilarity(a, b), in units of 1/SimScale
cosineSimilarity(a, b) ==
    LET dotProduct  == Dot(a.lead, b.lead)
        normA       == Dot(a.lead, a.lead)
        normB       == Dot(b.lead, b.lead)
        denominator == Sqrt(normA) * Sqrt(normB)
    IN  IF denominator > 0 THEN (dotProduct * SimScale) \div denominator ELSE 0

\* calculateAverageSimilarity(embedding, groupEmbeddings): the mean, kept
\* as the fraction num / den
calculateAverageSimilarity(embedding, groupEmbeddings) ==
    [ num |-> SumSeq([ k \in 1..Len(groupEmbeddings) |->
                          cosineSimilarity(embedding, groupEmbeddings[k]) ]),
      den |-> Len(groupEmbeddings) ]

\* avgSimilarity > threshold
Exceeds(avg, threshold) == avg.num > threshold * avg.den

\* the inner loop comparing a candidate with the seed alone
RECURSIVE ScanCandidates_SeedOnly(_, _, _, _, _, _)
ScanCandidates_SeedOnly(group, assigned, j, tabs, embeddings, threshold) ==
    IF j > Len(tabs) THEN [ group |-> group, assigned |-> assigned ]
    ELSE IF j \in assigned
    THEN ScanCandidates_SeedOnly(group, assigned, j + 1, tabs, embeddings,
                                 threshold)
    ELSE IF Exceeds(calculateAverageSimilarity(embeddings[j],
                                               << group.embeddings[1] >>),
                    threshold)
    THEN ScanCandidates_SeedOnly(
            [ tabs       |-> Append(group.tabs, tabs[j]),
              embeddings |-> Append(group.embeddings, embeddings[j]),
              indices    |-> Append(group.indices, j) ],
            assigned \cup { j }, j + 1, tabs, embeddings, threshold)
    ELSE ScanCandidates_SeedOnly(group, assigned, j + 1, tabs, embeddings,
                                 threshold)

\* the inner loop with group.tabs.unshift(tabs[j]) in place of push
RECURSIVE ScanCandidates_Unshift(_, _, _, _, _, _)
ScanCandidates_Unshift(group, assigned, j, tabs, embeddings, threshold) ==
    IF j > Len(tabs) THEN [ group |-> group, assigned |-> assigned ]
    ELSE IF j \in assigned
    THEN ScanCandidates_Unshift(group, assigned, j + 1, tabs, embeddings,
                                threshold)
    ELSE IF Exceeds(calculateAverageSimilarity(embeddings[j], group.embeddings),
                    threshold)
    THEN ScanCandidates_Unshift(
            [ tabs       |-> << tabs[j] >> \o group.tabs,
              embeddings |-> Append(group.embeddings, embeddings[j]),
              indices    |-> Append(group.indices, j) ],
            assigned \cup { j }, j + 1, tabs, embeddings, threshold)
    ELSE ScanCandidates_Unshift(group, assigned, j + 1, tabs, embeddings,
                                threshold)

\* inner loop of groupTabsBySimilarity: candidates j..n for the open group
RECURSIVE ScanCandidates(_, _, _, _, _, _)
ScanCandidates(group, assigned, j, tabs, embeddings, threshold) ==
    IF j > Len(tabs) THEN [ group |-> group, assigned |-> assigned ]
    ELSE IF j \in assigned
    THEN ScanCandidates(group, assigned, j + 1, tabs, embeddings, threshold)
    ELSE IF Exceeds(calculateAverageSimilarity(embeddings[j], group.embeddings),
                    threshold)
    THEN ScanCandidates(
            [ tabs       |-> Append(group.tabs, tabs[j]),
              embeddings |-> Append(group.embeddings, embeddings[j]),
              indices    |-> Append(group.indices, j) ],
            assigned \cup { j }, j + 1, tabs, embeddings, threshold)
    ELSE ScanCandidates(group, assigned, j + 1, tabs, embeddings, threshold)

\* outer loop of groupTabsBySimilarity: seeds i..n
RECURSIVE SeedLoop(_, _, _, _, _, _)
SeedLoop(i, groups, assigned, tabs, embeddings, threshold) ==
    IF i > Len(tabs) THEN [ groups |-> groups, assigned |-> assigned ]
    ELSE IF i \in assigned
    THEN SeedLoop(i + 1, groups, assigned, tabs, embeddings, threshold)
    ELSE LET seed == [ tabs |-> << tabs[i] >>,
                       embeddings |-> << embeddings[i] >>,
                       indices |-> << i >> ]
             scan == ScanCandidates(seed, assigned \cup { i }, i + 1, tabs,
                                    embeddings, threshold)
         IN  SeedLoop(i + 1,
                      IF Len(scan.group.tabs) >= 2
                      THEN Append(groups, scan.group) ELSE groups,
                      scan.assigned, tabs, embeddings, threshold)

\* tabs.filter((_, i) => !assigned.has(i))
RECURSIVE FilterUnassigned(_, _, _)
FilterUnassigned(tabs, assigned, i) ==
    IF i > Len(tabs) THEN << >>
    ELSE IF i \in assigned THEN FilterUnassigned(tabs, assigned, i + 1)
    ELSE << tabs[i] >> \o FilterUnassigned(tabs, assigned, i + 1)

\* groupTabsBySimilarity(tabs, threshold) once generateEmbeddings returned
\* embeddings: { groups, ungrouped }
Cluster(tabs, embeddings, threshold) ==
    LET loop == SeedLoop(1, << >>, { }, tabs, embeddings, threshold)
    IN  [ groups |-> loop.groups,
          ungrouped |-> FilterUnassigned(tabs, loop.assigned, 1) ]

-----------------------------------------------------------------------------
(* Group labels and cohesion (RealAIProcessor) *)

\* the categories of extractCommonTheme, in declaration order
Categories == << "Development", "Research", "Social", "Shopping", "Media",
                 "News", "Documentation", "Email", "Work", "AI/ML", "Design" >>

\* the keywords of extractCommonTheme's lists that a lower-cased title or
\* domain contains (String.includes), as <<category, keyword>> pairs
KeywordsIn(piece) ==
    CASE piece = "vue guide"  -> { << "Documentation", "guide" >> }
      [] piece = "buy mouse"  -> { << "Shopping", "buy" >> }
      [] piece = "shop cart"  -> { << "Shopping", "shop" >>,
                                   << "Shopping", "cart" >> }
      [] piece = "github.com" -> { << "Development", "github" >> }
      [] OTHER                -> { }

ToLowerCase(str) ==
    CASE str = "React hooks" -> "react hooks"
      [] str = "Vue guide"   -> "vue guide"
      [] str = "Buy mouse"   -> "buy mouse"
      [] str = "Shop cart"   -> "shop cart"
      [] str = "Home"        -> "home"
      [] OTHER               -> str

Emoji(category) ==
    CASE category = "Development"   -> "<laptop>"
      [] category = "Research"      -> "<microscope>"
      [] category = "Social"        -> "<speech>"
      [] category = "Shopping"      -> "<cart>"
      [] category = "Media"         -> "<clapper>"
      [] category = "News"          -> "<newspaper>"
      [] category = "Documentation" -> "<books>"
      [] category = "Email"         -> "<e-mail>"
      [] category = "Work"          -> "<briefcase>"
      [] category = "AI/ML"         -> "<robot>"
      [] category = "Design"        -> "<palette>"

\* domain.split('.')[0] with its first letter in upper case
TitleCase(domain) ==
    CASE domain = "github.com" -> "Github"
      [] domain = "vuejs.org"  -> "Vuejs"
      [] domain = "example.org" -> "Example"
      [] domain = "static-example.com" -> "Static-example"
      [] domain = "not a url"  -> "Not a url"

\* the last index of the largest score
RECURSIVE BestFrom_LastWins(_, _, _)
BestFrom_LastWins(scores, k, best) ==
    IF k > Len(scores) THEN best
    ELSE BestFrom_LastWins(scores, k + 1,
                           IF scores[k] >= scores[best] THEN k ELSE best)

\* the first index of the largest score: a stable descending sort's head
RECURSIVE BestFrom(_, _, _)
BestFrom(scores, k, best) ==
    IF k > Len(scores) THEN best
    ELSE BestFrom(scores, k + 1, IF scores[k] > scores[best] THEN k ELSE best)

\* extractCommonTheme(titles, domains); no keyword of the lists spans the
\* blank that joins two pieces of the texts used here
extractCommonTheme(titles, domains) ==
    LET pieces == titles \o domains
        found  == UNION { KeywordsIn(ToLowerCase(pieces[k])) : k \in 1..Len(pieces) }
        scores == [ c \in 1..Len(Categories) |->
                      Cardinality({ kw \in found : kw[1] = Categories[c] }) ]
        bestCategory == BestFrom(scores, 1, 1)
    IN  IF scores[bestCategory] > 0
        THEN Emoji(Categories[bestCategory]) \o " " \o Categories[bestCategory]
        ELSE IF Len(domains) > 0 THEN "<globe> " \o TitleCase(domains[1])
        ELSE "<bookmark> Group"

\* the distinct domains of a group's tabs, in insertion order (a Set)
RECURSIVE DomainSet(_, _, _)
DomainSet(tabs, k, acc) ==
    IF k > Len(tabs) THEN acc
    ELSE LET d == ReplaceWww(Hostname(tabs[k].url))
         IN  DomainSet(tabs, k + 1,
                IF UrlValid(tabs[k].url) /\ \A i \in 1..Len(acc) : acc[i] # d
                THEN Append(acc, d) ELSE acc)

\* calculateGroupCohesion whose inner loop starts at j = i
calculateGroupCohesion_WithSelfPairs(embeddings) ==
    IF Len(embeddings) < 2 THEN [ num |-> SimScale, den |-> 1 ]
    ELSE LET pairs == { p \in (1..Len(embeddings)) \X (1..Len(embeddings)) :
                           p[1] <= p[2] }
         IN  [ num |-> SumSeq([ k \in 1..Len(embeddings) * Len(embeddings) |->
                          LET i == ((k - 1) \div Len(embeddings)) + 1
                              j == ((k - 1) % Len(embeddings)) + 1
                          IN  IF << i, j >> \in pairs
                              THEN cosineSimilarity(embeddings[i], embeddings[j])
                              ELSE 0 ]),
               den |-> Cardinality(pairs) ]

\* calculateGroupCohesion(embeddings): the mean pairwise similarity, kept
\* as the fraction num / den
calculateGroupCohesion(embeddings) ==
    IF Len(embeddings) < 2 THEN [ num |-> SimScale, den |-> 1 ]
    ELSE LET pairs == { p \in (1..Len(embeddings)) \X (1..Len(embeddings)) :
                           p[1] < p[2] }
             order == [ k \in 1..Len(embeddings) * Len(embeddings) |->
                          << ((k - 1) \div Len(embeddings)) + 1,
                             ((k - 1) % Len(embeddings)) + 1 >> ]
         IN  [ num |-> SumSeq([ k \in 1..Len(order) |->
                          IF order[k] \in pairs
                          THEN cosineSimilarity(embeddings[order[k][1]],
                                                embeddings[order[k][2]])
                          ELSE 0 ]),
               den |-> Cardinality(pairs) ]

\* generateGroupLabels(groups)
generateGroupLabels(groups) ==
    [ g \in 1..Len(groups) |->
        [ label |-> extractCommonTheme(
                       [ k \in 1..Len(groups[g].tabs) |-> groups[g].tabs[k].title ],
                       DomainSet(groups[g].tabs, 1, << >>)),
          tabs |-> groups[g].tabs,
          confidence |-> calculateGroupCohesion(groups[g].embeddings) ] ]

-----------------------------------------------------------------------------
(* messageHandler, case 'PROCESS_TABS': groupTabsBySimilarity and its     *)
(* generateEmbeddings loop, one action per await                          *)

NoCall == [ kind |-> "none", text |-> "", hidden |-> 0, outputs |-> << >>,
            ready |-> FALSE,
            cached |-> FALSE, value |-> NullEmbedding ]
NoResult == [ groups |-> << >>, ungrouped |-> << >> ]

NoBatch == [ pc |-> "idle", tabs |-> << >>, threshold |-> 0, texts |-> << >>,
             embeddings |-> << >>, failed |-> << >>, call |-> NoCall,
             success |-> FALSE, result |-> NoResult, labeled |-> << >> ]

\* thresholds a PROCESS_TABS message may carry, in units of 1/SimScale;
\* 0 stands for an absent (or zero) threshold
MsgThresholds == { 0, 45, 70 }

\* message.threshold || 0.5
EffectiveThreshold(t) == IF t = 0 THEN 50 ELSE t

BatchFrame == << currentState, stateDetails, session, tokenizerData,
                 modelReady, initInProgress, initPromise, readyEmitted,
                 initStarted, initCompleted, ortDefined, model, initPc, runs,
                 callers, inflight, sent, returned, bg >>

\* the end of groupTabsBySimilarity and of the handler: cluster, label and
\* answer
BatchDone(b, embeddings, failed) ==
    LET result == Cluster(b.tabs, embeddings, b.threshold)
    IN  [ b EXCEPT !.pc = "done", !.embeddings = embeddings,
                   !.failed = failed, !.call = NoCall, !.success = TRUE,
                   !.result = result,
                   !.labeled = generateGroupLabels(result.groups) ]

\* generateEmbeddings with embeddings collected so far: call
\* generateEmbedding for the next text, or return
BatchContinue(b, embeddings, failed, cache) ==
    IF Len(embeddings) = Len(b.texts)
    THEN BatchDone(b, embeddings, failed)
    ELSE [ b EXCEPT !.pc = "embedding", !.embeddings = embeddings,
                    !.failed = failed,
                    !.call = EmbedCall("batch", b.texts[Len(embeddings) + 1],
                                       cache) ]

\* a PROCESS_TABS handler that starts every batch with an empty cache
ProcessTabs_ClearsCache(tabs, threshold) ==
    /\ ~MicrotaskQueued
    /\ batch.pc = "idle"
    /\ IF currentState # READY \/ ~modelReady
       THEN batch' = [ NoBatch EXCEPT !.pc = "refused" ]
       ELSE batch' = BatchContinue(
                [ NoBatch EXCEPT !.tabs = tabs, !.threshold = threshold,
                     !.texts = [ k \in 1..Len(tabs) |-> TabText(tabs[k]) ] ],
                << >>, << >>, << >>)
    /\ embeddingCache' = << >>
    /\ UNCHANGED BatchFrame

\* a PROCESS_TABS message arrives: refused unless READY, otherwise
\* groupTabsBySimilarity runs up to its first await
ProcessTabs(tabs, threshold) ==
    /\ ~MicrotaskQueued
    /\ batch.pc = "idle"
    /\ IF currentState # READY \/ ~modelReady
       THEN batch' = [ NoBatch EXCEPT !.pc = "refused" ]
       ELSE batch' = BatchContinue(
                [ NoBatch EXCEPT !.tabs = tabs, !.threshold = threshold,
                     !.texts = [ k \in 1..Len(tabs) |-> TabText(tabs[k]) ] ],
                << >>, << >>, embeddingCache)
    /\ UNCHANGED embeddingCache
    /\ UNCHANGED BatchFrame

\* generateEmbeddings that gives up the whole batch when one embedding is
\* null
generateEmbeddings_AbortsOnFailure(ok) ==
    /\ ~MicrotaskQueued
    /\ batch.pc = "embedding"
    /\ batch.call.cached => ok
    /\ LET value == EmbedValue(batch.call, ok)
           cache == EmbedCache(embeddingCache, batch.call, ok)
       IN  /\ embeddingCache' = cache
           /\ batch' =
                 IF value # NullEmbedding
                 THEN BatchContinue(batch, Append(batch.embeddings, value),
                                    Append(batch.failed, FALSE), cache)
                 ELSE [ batch EXCEPT !.pc = "done", !.call = NoCall,
                                     !.success = FALSE ]
    /\ UNCHANGED BatchFrame

\* generateEmbeddings: the awaited generateEmbedding returned a vector, or
\* null after a failed inference, for which the zero vector is pushed
generateEmbeddings(ok) ==
    /\ ~MicrotaskQueued
    /\ batch.pc = "embedding"
    /\ batch.call.cached => ok
    /\ LET value == EmbedValue(batch.call, ok)
           cache == EmbedCache(embeddingCache, batch.call, ok)
       IN  /\ embeddingCache' = cache
           /\ batch' = BatchContinue(batch,
                  Append(batch.embeddings,
                         IF value # NullEmbedding THEN value ELSE ZeroVector),
                  Append(batch.failed, value = NullEmbedding), cache)
    /\ UNCHANGED BatchFrame

-----------------------------------------------------------------------------
(* TabManager (background service worker): the domain fallback *)

\* tab.url.split(':')[0]
Protocol(url) == CASE url = "not a url" -> "not a url"

\* the Map key groupTabsByDomain files a tab under
DomainKey(tab) ==
    IF UrlValid(tab.url) THEN ReplaceWww(Hostname(tab.url))
    ELSE Protocol(tab.url)

\* generateGroupLabel(domain, tabs)
generateGroupLabel(domain) ==
    IF domain = "github.com" THEN "<laptop> Development"
    ELSE "<globe> " \o TitleCase(domain)

\* the forEach of groupTabsByDomain: a Map from domain to tabs, its entries
\* in insertion order
RECURSIVE DomainGroups(_, _, _)
DomainGroups(tabs, k, entries) ==
    IF k > Len(tabs) THEN entries
    ELSE LET d == DomainKey(tabs[k])
         IN  DomainGroups(tabs, k + 1,
                IF \E i \in 1..Len(entries) : entries[i].domain = d
                THEN [ i \in 1..Len(entries) |->
                         IF entries[i].domain = d
                         THEN [ entries[i] EXCEPT !.tabs = Append(@, tabs[k]) ]
                         ELSE entries[i] ]
                ELSE Append(entries, [ domain |-> d, tabs |-> << tabs[k] >> ]))

\* filter(group => group.count >= 2)
RECURSIVE FilterByCount(_, _)
FilterByCount(groups, k) ==
    IF k > Len(groups) THEN << >>
    ELSE IF groups[k].count >= 2
    THEN << groups[k] >> \o FilterByCount(groups, k + 1)
    ELSE FilterByCount(groups, k + 1)

\* sort((a, b) => b.count - a.count): a stable sort, by insertion
RECURSIVE InsertByCount(_, _)
InsertByCount(sorted, g) ==
    IF sorted = << >> THEN << g >>
    ELSE IF g.count > sorted[Len(sorted)].count
    THEN Append(InsertByCount(SubSeq(sorted, 1, Len(sorted) - 1), g),
                sorted[Len(sorted)])
    ELSE Append(sorted, g)

RECURSIVE SortByCount(_, _, _)
SortByCount(groups, k, sorted) ==
    IF k > Len(groups) THEN sorted
    ELSE SortByCount(groups, k + 1, InsertByCount(sorted, groups[k]))

\* groupTabsByDomain() over this.tabs
groupTabsByDomain(tabs) ==
    LET entries == DomainGroups(tabs, 1, << >>)
        mapped  == [ k \in 1..Len(entries) |->
                       [ label  |-> generateGroupLabel(entries[k].domain),
                         domain |-> entries[k].domain,
                         tabs   |-> entries[k].tabs,
                         count  |-> Len(entries[k].tabs) ] ]
    IN  SortByCount(FilterByCount(mapped, 1), 1, << >>)

-----------------------------------------------------------------------------
(* TabManager: groupTabsWithAI's use of the PROCESS_TABS response *)

\* the comparator of formattedGroups.sort: positive when a goes after b
ConfidenceThenCount(a, b) ==
    LET differ == a.confidence.num * b.confidence.den
                  - b.confidence.num * a.confidence.den
        far    == IF differ < 0
                  THEN 10 * (0 - differ) > SimScale * a.confidence.den * b.confidence.den
                  ELSE 10 * differ > SimScale * a.confidence.den * b.confidence.den
    IN  IF far THEN differ < 0 ELSE b.count > a.count

\* the sort of formattedGroups, by insertion (the engine's sort for short
\* arrays)
RECURSIVE InsertFormatted(_, _)
InsertFormatted(sorted, g) ==
    IF sorted = << >> THEN << g >>
    ELSE IF ConfidenceThenCount(sorted[Len(sorted)], g)
    THEN Append(InsertFormatted(SubSeq(sorted, 1, Len(sorted) - 1), g),
                sorted[Len(sorted)])
    ELSE Append(sorted, g)

RECURSIVE SortFormatted(_, _, _)
SortFormatted(groups, k, sorted) ==
    IF k > Len(groups) THEN sorted
    ELSE SortFormatted(groups, k + 1, InsertFormatted(sorted, groups[k]))

\* response.groups.map(...) and the sort that follows
formattedGroups(groups) ==
    SortFormatted([ k \in 1..Len(groups) |->
                      [ label      |-> groups[k].label,
                        tabs       |-> groups[k].tabs,
                        count      |-> Len(groups[k].tabs),
                        confidence |-> groups[k].confidence ] ],
                  1, << >>)

-----------------------------------------------------------------------------
(* The offscreen document from its construction *)

\* the service worker at rest: no operation running, no offscreen document
NoBackground ==
    [ pc |-> "idle", op |-> "none", ret |-> "none", aiMode |-> TRUE,
      offscreenReady |-> FALSE, doc |-> FALSE, listening |-> FALSE,
      delivered |-> 0, tabs |-> << >>, response |-> "none",
      grouped |-> << >>, threw |-> FALSE, created |-> FALSE ]

\* the extension as packaged
Packaged ==
    [ hidden |-> EmbeddingDim, pooled |-> [ t \in Texts |-> << 6, 8 >> ],
      outputNames |-> << "last_hidden_state" >>, preConfig |-> TRUE,
      transport |-> "chrome", wasm |-> "ok" ]

\* the environments of a document: the packaged one, those with another
\* model file or no ort-paths.js, those with another messaging transport
\* and those whose .wasm files cannot be fetched
Environments ==
    { [ Packaged EXCEPT !.hidden = h, !.outputNames = o, !.preConfig = p ] :
        h \in HiddenSizes, o \in OutputNames, p \in BOOLEAN } \cup
    { [ Packaged EXCEPT !.transport = x ] : x \in Transports } \cup
    { [ Packaged EXCEPT !.wasm = w ] : w \in WasmProbes }

Init ==
    /\ currentState = BOOT
    /\ stateDetails = NoDetails
    /\ session = NoSession
    /\ tokenizerData = Null
    /\ modelReady = FALSE
    /\ embeddingCache = << >>
    /\ initInProgress = FALSE
    /\ initPromise = 0
    /\ readyEmitted = FALSE
    /\ initStarted = FALSE
    /\ initCompleted = FALSE
    /\ ortDefined \in BOOLEAN
    /\ model \in Environments
    /\ initPc = "idle"
    /\ runs = << >>
    /\ callers = [ c \in CallerIds |-> IdleCaller ]
    /\ inflight = << >>
    /\ sent = << >>
    /\ batch = NoBatch
    /\ returned = NoReturns
    /\ bg = NoBackground

Next ==
    \/ OnDocumentReady
    \/ VisibilityChange
    \/ \E c \in InitMsgs : InitAI(c)
    \/ \E c \in CallerIds : CallerResume(c)
    \/ AfterConfigure
    \/ AfterVerifyWASMFiles
    \/ \E ok \in BOOLEAN : AfterLoadModel(ok)
    \/ \E ok \in BOOLEAN : AfterLoadTokenizer(ok)
    \/ \E i \in 1..Len(inflight), ok \in BOOLEAN : AfterWarmUp(i, ok)
    \/ \E src \in RequestSources, text \in Texts : EmbedRequest(src, text)
    \/ \E i \in 1..Len(inflight), ok \in BOOLEAN : EmbedFinish(i, ok)

Spec == Init /\ [][Next]_vars

-----------------------------------------------------------------------------
(* The offscreen document serving PROCESS_TABS (SpecBatch): the document  *)
(* initializes itself at DOM ready with a packaged model of the expected  *)
(* size, whose outputs for the tab texts range over PooledVectors.        *)

InitBatch ==
    /\ currentState = BOOT
    /\ stateDetails = NoDetails
    /\ session = NoSession
    /\ tokenizerData = Null
    /\ modelReady = FALSE
    /\ embeddingCache = << >>
    /\ initInProgress = FALSE
    /\ initPromise = 0
    /\ readyEmitted = FALSE
    /\ initStarted = FALSE
    /\ initCompleted = FALSE
    /\ ortDefined = TRUE
    /\ model \in { [ hidden |-> EmbeddingDim,
                     pooled |-> [ t \in Texts \cup TabTexts |->
                                    IF t \in Texts THEN << 6, 8 >> ELSE f[t] ],
                     outputNames |-> << "last_hidden_state" >>,
                     preConfig |-> TRUE, transport |-> "chrome",
                 wasm |-> "ok" ] :
                     f \in [ TabTexts -> PooledVectors ] }
    /\ initPc = "idle"
    /\ runs = << >>
    /\ callers = [ c \in CallerIds |-> IdleCaller ]
    /\ inflight = << >>
    /\ sent = << >>
    /\ batch = NoBatch
    /\ returned = NoReturns
    /\ bg = NoBackground

NextBatch ==
    \/ OnDocumentReady
    \/ CallerResume(StartCaller)
    \/ AfterConfigure
    \/ AfterVerifyWASMFiles
    \/ \E ok \in BOOLEAN : AfterLoadModel(ok)
    \/ \E ok \in BOOLEAN : AfterLoadTokenizer(ok)
    \/ \E i \in 1..Len(inflight), ok \in BOOLEAN : AfterWarmUp(i, ok)
    \/ \E l \in TabLists, t \in MsgThresholds :
          ProcessTabs(TabsOf(l), EffectiveThreshold(t))
    \/ \E ok \in BOOLEAN : generateEmbeddings(ok)

SpecBatch == InitBatch /\ [][NextBatch]_vars

-----------------------------------------------------------------------------
(* The offscreen document and its message handler (SpecMessages): the     *)
(* packaged document initializes itself at DOM ready while the messages   *)
(* other than INIT_AI arrive at any moment.                                *)

\* the tab lists of the PROCESS_TABS messages: one or two tabs
MessageTabLists == { l \in TabLists : Len(l) \in 1..2 }

InitMessages ==
    /\ currentState = BOOT
    /\ stateDetails = NoDetails
    /\ session = NoSession
    /\ tokenizerData = Null
    /\ modelReady = FALSE
    /\ embeddingCache = << >>
    /\ initInProgress = FALSE
    /\ initPromise = 0
    /\ readyEmitted = FALSE
    /\ initStarted = FALSE
    /\ initCompleted = FALSE
    /\ ortDefined = TRUE
    /\ model = [ hidden |-> EmbeddingDim,
                 pooled |-> [ t \in Texts \cup TabTexts |-> << 6, 8 >> ],
                 outputNames |-> << "last_hidden_state" >>,
                 preConfig |-> TRUE, transport |-> "chrome",
                 wasm |-> "ok" ]
    /\ initPc = "idle"
    /\ runs = << >>
    /\ callers = [ c \in CallerIds |-> IdleCaller ]
    /\ inflight = << >>
    /\ sent = << >>
    /\ batch = NoBatch
    /\ returned = NoReturns
    /\ bg = NoBackground

NextMessages ==
    \/ OnDocumentReady
    \/ CallerResume(StartCaller)
    \/ AfterConfigure
    \/ AfterVerifyWASMFiles
    \/ \E ok \in BOOLEAN : AfterLoadModel(ok)
    \/ \E ok \in BOOLEAN : AfterLoadTokenizer(ok)
    \/ \E i \in 1..Len(inflight), ok \in BOOLEAN : AfterWarmUp(i, ok)
    \/ StatusQuery
    \/ \E src \in RequestSources, text \in Texts : EmbedRequest(src, text)
    \/ \E i \in 1..Len(inflight), ok \in BOOLEAN : EmbedFinish(i, ok)
    \/ \E l \in MessageTabLists, t \in MsgThresholds :
          ProcessTabs(TabsOf(l), EffectiveThreshold(t))
    \/ \E ok \in BOOLEAN : generateEmbeddings(ok)

SpecMessages == InitMessages /\ [][NextMessages]_vars

-----------------------------------------------------------------------------
(* The offscreen document with a nearly full cache (SpecCache): the state *)
(* of a document that initialized at DOM ready and has since answered     *)
(* embedding requests for Prefilled distinct texts.                       *)

CacheKey(n) == "k" \o ToString(n)

\* texts embedded before: the warm-up text, then k1, k2, ...
PrefilledKeys(n) ==
    [ k \in 1..n |-> IF k = 1 THEN "warmup test" ELSE CacheKey(k - 1) ]

\* texts never embedded before
NewKeys == { CacheKey(CacheLimit + d) : d \in 0..1 }

\* texts requested: some cached, some new
CacheTexts == { "warmup test", "self-test input", CacheKey(1) } \cup NewKeys

\* the messages of a run that succeeds at the first attempt
SuccessfulRun ==
    LET s0 == transitionToState([ cs |-> BOOT, sd |-> NoDetails, out |-> << >>,
                                  run |-> 1 ], BOOT, << >>)
        s1 == transitionToState(s0, ORT_CONFIGURED, << >>)
        s2 == transitionToState(s1, WASM_READY,
                                [ wasmVariant |-> "ort-wasm-simd.wasm" ])
        s3 == transitionToState(s2, SESSION_READY, << >>)
        s4 == transitionToState(s3, TOKENIZER_READY, << >>)
        s5 == transitionToState(s4, WARMED_UP, [ testEmbedding |-> "successful" ])
    IN  transitionToState(s5, READY, [ allStagesCompleted |-> "true" ])

\* the document after startInitialization succeeded and sent 'ai:ready'
ReadyDocument ==
    /\ currentState = READY
    /\ stateDetails = SuccessfulRun.sd
    /\ session = [ hidden |-> EmbeddingDim,
                   outputNames |-> << "last_hidden_state" >> ]
    /\ tokenizerData = "loaded"
    /\ modelReady = TRUE
    /\ initInProgress = FALSE
    /\ initPromise = 1
    /\ readyEmitted = TRUE
    /\ initStarted = TRUE
    /\ initCompleted = TRUE
    /\ ortDefined = TRUE
    /\ initPc = "idle"
    /\ runs = << Resolved >>
    /\ callers = [ c \in CallerIds |->
                     IF c = StartCaller
                     THEN [ pos |-> "done", run |-> 1, outcome |-> "resolved",
                            err |-> Null ]
                     ELSE IdleCaller ]
    /\ inflight = << >>
    /\ sent = Append(SuccessfulRun.out,
                [ type |-> "ai:ready", stage |-> READY, error |-> Null,
                  resource |-> Null, origin |-> "startInitialization",
                  run |-> 1 ])
    /\ batch = NoBatch
    /\ returned = NoReturns
    /\ bg = NoBackground

InitCache ==
    /\ model = [ hidden |-> EmbeddingDim,
                 pooled |-> [ t \in { "self-test input" } \cup NewKeys
                                    \cup { PrefilledKeys(CacheLimit)[k] :
                                              k \in 1..CacheLimit } |->
                                 << 6, 8 >> ],
                 outputNames |-> << "last_hidden_state" >>,
                 preConfig |-> TRUE, transport |-> "chrome",
                 wasm |-> "ok" ]
    /\ ReadyDocument
    /\ \E n \in { CacheLimit - 1, CacheLimit } :
          embeddingCache =
             [ k \in 1..n |->
                 [ key |-> PrefilledKeys(n)[k],
                   value |-> ComputeEmbedding(PrefilledKeys(n)[k], EmbeddingDim) ] ]

NextCache ==
    \/ \E src \in RequestSources, text \in CacheTexts : EmbedRequest(src, text)
    \/ \E i \in 1..Len(inflight), ok \in BOOLEAN : EmbedFinish(i, ok)

SpecCache == InitCache /\ [][NextCache]_vars

-----------------------------------------------------------------------------
(* Normalisation (SpecNormalize): the READY document answers embedding    *)
(* requests on a network whose mean-pooled hidden states include the      *)
(* vector of zeros and vectors with negative components.                  *)

\* mean-pooled hidden states of the network
NormInputs == PooledVectors \cup { << 0, 0 >>, << -3, 4 >>, << 0, -5 >> }

InitNormalize ==
    /\ model \in { [ hidden |-> EmbeddingDim, pooled |-> f,
                     outputNames |-> << "last_hidden_state" >>,
                     preConfig |-> TRUE, transport |-> "chrome",
                     wasm |-> "ok" ] : f \in [ Texts -> NormInputs ] }
    /\ ReadyDocument
    /\ embeddingCache =
          << [ key |-> "warmup test",
               value |-> ComputeEmbedding("warmup test", EmbeddingDim) ] >>

NextNormalize ==
    \/ \E src \in RequestSources, text \in Texts : EmbedRequest(src, text)
    \/ \E i \in 1..Len(inflight), ok \in BOOLEAN : EmbedFinish(i, ok)

SpecNormalize == InitNormalize /\ [][NextNormalize]_vars

-----------------------------------------------------------------------------
(* Tokenization (SpecTokenize): tokenize applied to one text by a         *)
(* processor with or without tokenizer data.  A text is given by the      *)
(* words that splitting it at white space yields, already in lower case,  *)
(* and a word by its characters.                                          *)

MaxWords      == 510     \* slice(0, 510): words kept of a text
MaxCharTokens == 10      \* slice(0, 10): character tokens kept of a word
CLS           == 101     \* first token
SEP           == 102     \* last token
UNK           == 100     \* token of a character the vocabulary lacks
HashModulus   == 28000   \* Math.abs(hash) % 28000
HashOffset    == 1000    \* ... + 1000
HashLimit     == 29999   \* Math.min(tokenId, 29999)

\* the words of the texts
WordAb   == << "a", "b" >>
WordB    == << "b" >>
WordZq   == << "z", "q" >>
WordAbz  == << "a", "b", "z" >>
WordLong == << "a", "a", "a", "a", "a", "a", "a", "a", "a", "a", "a", "a" >>

\* tokenizer.model.vocab of the packaged tokenizer.json
PackagedVocab ==
    (WordAb :> 11113) @@ (WordB :> 1038) @@ (<< "a" >> :> 1037)

\* vocab[word]: the id, or undefined (0 here, as falsy)
VocabGet(vocab, word) == IF word \in DOMAIN vocab THEN vocab[word] ELSE 0

\* String.charCodeAt
CharCode(char) ==
    CASE char = "a" -> 97
      [] char = "b" -> 98
      [] char = "q" -> 113
      [] char = "z" -> 122

\* the hash loop of fallbackTokenize from character i on.  For words of
\* up to five characters no value leaves the 32-bit range, where
\* hash << 5 is hash * 32.
RECURSIVE WordHash(_, _, _)
WordHash(word, i, hash) ==
    IF i > Len(word) THEN hash
    ELSE WordHash(word, i + 1, ((hash * 32) - hash) + CharCode(word[i]))

Abs(n) == IF n < 0 THEN 0 - n ELSE n
Min(a, b) == IF a < b THEN a ELSE b

\* tokens.push(...) for every word: the concatenation of the pieces
\* lo .. hi, by halves
RECURSIVE Concat(_, _, _)
Concat(pieces, lo, hi) ==
    IF lo > hi THEN << >>
    ELSE IF lo = hi THEN pieces[lo]
    ELSE Concat(pieces, lo, (lo + hi) \div 2) \o
         Concat(pieces, ((lo + hi) \div 2) + 1, hi)

\* fallbackTokenize(text): one hashed token for each of the first 510 words
fallbackTokenize(words) ==
    LET kept == SubSeq(words, 1, Min(Len(words), MaxWords))
    IN  << CLS >> \o
        [ k \in 1..Len(kept) |->
            Min((Abs(WordHash(kept[k], 1, 0)) % HashModulus) + HashOffset,
                HashLimit) ] \o
        << SEP >>

\* word.split('').map(char => vocab[char] || 100).slice(0, 10)
CharTokens(vocab, word) ==
    [ i \in 1..Min(Len(word), MaxCharTokens) |->
        IF VocabGet(vocab, << word[i] >>) # 0
        THEN VocabGet(vocab, << word[i] >>) ELSE UNK ]

\* tokenize(text) of a processor whose tokenizerData is tok and whose
\* tokenizer has the vocabulary vocab (empty when tokenizer.model.vocab is
\* missing)
tokenize(tok, vocab, words) ==
    IF tok = Null THEN fallbackTokenize(words)
    ELSE IF words = << >> THEN << CLS, SEP >>
    ELSE LET kept == SubSeq(words, 1, Min(Len(words), MaxWords))
         IN  << CLS >> \o
             Concat([ k \in 1..Len(kept) |->
                        IF VocabGet(vocab, kept[k]) # 0
                        THEN << VocabGet(vocab, kept[k]) >>
                        ELSE CharTokens(vocab, kept[k]) ], 1, Len(kept)) \o
             << SEP >>

\* the lengths of the texts, in words
WordCounts == { 0, 1, 2, 50, 51, 52, 509, 510, 511 }

\* the texts: one word repeated
TokenizeTexts ==
    { [ k \in 1..n |-> w ] :
        n \in WordCounts, w \in { WordAb, WordB, WordZq, WordAbz, WordLong } }

\* the processor before its tokenizer is loaded, and after, with the
\* packaged vocabulary or with a tokenizer.json that has none
InitTokenize ==
    /\ \E v \in { PackagedVocab, << >> } :
          model = [ hidden |-> EmbeddingDim,
                    pooled |-> [ t \in Texts |-> << 6, 8 >> ],
                    outputNames |-> << "last_hidden_state" >>,
                    preConfig |-> TRUE, transport |-> "chrome",
                    wasm |-> "ok", vocab |-> v ]
    /\ \/ /\ ReadyDocument
          /\ embeddingCache =
                << [ key |-> "warmup test",
                     value |-> ComputeEmbedding("warmup test", EmbeddingDim) ] >>
       \/ /\ model.vocab = PackagedVocab
          /\ currentState = BOOT
          /\ stateDetails = NoDetails
          /\ session = NoSession
          /\ tokenizerData = Null
          /\ modelReady = FALSE
          /\ embeddingCache = << >>
          /\ initInProgress = FALSE
          /\ initPromise = 0
          /\ readyEmitted = FALSE
          /\ initStarted = FALSE
          /\ initCompleted = FALSE
          /\ ortDefined = TRUE
          /\ initPc = "idle"
          /\ runs = << >>
          /\ callers = [ c \in CallerIds |-> IdleCaller ]
          /\ inflight = << >>
          /\ sent = << >>
          /\ batch = NoBatch
          /\ returned = NoReturns
          /\ bg = NoBackground

\* processor.tokenize(text) is called and returns its tokens
Tokenize(words) ==
    /\ inflight = << >>
    /\ tokenizerData = Null => \A k \in 1..Len(words) : Len(words[k]) <= 5
    /\ inflight' = << [ kind |-> "tokenize", text |-> words,
                        tokens |-> tokenize(tokenizerData, model.vocab, words) ] >>
    /\ UNCHANGED << currentState, stateDetails, session, tokenizerData,
                    modelReady, embeddingCache, initInProgress, initPromise,
                    readyEmitted, initStarted, initCompleted, ortDefined,
                    model, initPc, runs, callers, sent, batch, returned, bg >>

NextTokenize == \E words \in TokenizeTexts : Tokenize(words)

SpecTokenize == InitTokenize /\ [][NextTokenize]_vars

-----------------------------------------------------------------------------
(* utils/messaging: sendMessage, sendToRuntime and sendToTab.  A call is   *)
(* a record of inflight: the promise of sendToRuntime / sendToTab (inner), *)
(* its timer, and the promise sendMessage returns (outer).                 *)

ErrorTypes == { "PERMISSION_DENIED", "TAB_ACCESS_ERROR", "STORAGE_ERROR",
                "INVALID_MESSAGE", "TIMEOUT" }

\* new MessageError(message, type): type defaults to INVALID_MESSAGE when
\* the argument is missing or undefined
MessageError(message, type) ==
    [ name |-> "MessageError", message |-> message,
      type |-> IF type = Null THEN "INVALID_MESSAGE" ELSE type ]

PendingPromise == [ state |-> "pending", value |-> Null ]

\* resolve(value) and reject(error) of a promise: only a pending promise
\* changes
Resolve(promise, value) ==
    IF promise.state = "pending"
    THEN [ state |-> "resolved", value |-> value ] ELSE promise

Reject(promise, error) ==
    IF promise.state = "pending"
    THEN [ state |-> "rejected", value |-> error ] ELSE promise

\* where sendMessage sends: options.tabId is null (runtime) or a tab
Targets == { "runtime", "tab" }

\* what chrome hands the callback: chrome.runtime.lastError set, a response
\* with an error (whose type may be missing), or a response without one
Responses ==
    { [ kind |-> "lastError", type |-> Null, message |-> "lastError" ] }
    \cup { [ kind |-> "error", type |-> t, message |-> "responder" ] :
             t \in ErrorTypes \cup { Null } }
    \cup { [ kind |-> "data", type |-> Null, message |-> Null ] }

SendCalls == { i \in 1..Len(inflight) : inflight[i].kind = "sendMessage" }

SendFrame == << currentState, stateDetails, session, tokenizerData,
                modelReady, embeddingCache, initInProgress, initPromise,
                readyEmitted, initStarted, initCompleted, ortDefined, model,
                initPc, runs, callers, sent, batch, returned, bg >>

\* sendMessage(type, data, options) up to its await: sendToTab or
\* sendToRuntime creates the promise, arms the timer and sends
sendMessage(target) ==
    /\ Len(inflight) < MaxSends
    /\ inflight' = Append(inflight,
          [ kind |-> "sendMessage", target |-> target, timer |-> "armed",
            answered |-> FALSE, response |-> Null, inner |-> PendingPromise,
            outer |-> PendingPromise ])
    /\ UNCHANGED SendFrame

\* the setTimeout callback of sendToRuntime / sendToTab
TimeoutFires(i) ==
    /\ i \in SendCalls
    /\ inflight[i].timer = "armed"
    /\ inflight' = [ inflight EXCEPT
          ![i].timer = "fired",
          ![i].inner = Reject(@, MessageError("Message timeout", "TIMEOUT")) ]
    /\ UNCHANGED SendFrame

\* the callback of sendToRuntime (target "runtime") or sendToTab ("tab")
sendCallback(call, resp) ==
    [ call EXCEPT
        !.timer = IF @ = "armed" THEN "cleared" ELSE @,
        !.answered = TRUE,
        !.response = resp.kind,
        !.inner =
           IF resp.kind = "lastError"
           THEN Reject(@, MessageError(resp.message,
                          IF call.target = "tab" THEN "TAB_ACCESS_ERROR"
                          ELSE Null))
           ELSE IF resp.kind = "error"
           THEN Reject(@, MessageError(resp.message, resp.type))
           ELSE Resolve(@, "response") ]

\* chrome calls the callback, before or after the timer fired
ResponseArrives(i, resp) ==
    /\ i \in SendCalls
    /\ ~inflight[i].answered
    /\ inflight' = [ inflight EXCEPT ![i] = sendCallback(@, resp) ]
    /\ UNCHANGED SendFrame

\* sendMessage after its await: the value is returned, or the catch block
\* throws new MessageError(error.message, ErrorTypes.INVALID_MESSAGE)
sendMessageResumes(i) ==
    /\ i \in SendCalls
    /\ inflight[i].inner.state # "pending"
    /\ inflight[i].outer.state = "pending"
    /\ inflight' = [ inflight EXCEPT ![i].outer =
          IF inflight[i].inner.state = "resolved"
          THEN Resolve(@, inflight[i].inner.value)
          ELSE Reject(@, MessageError(inflight[i].inner.value.message,
                                      "INVALID_MESSAGE")) ]
    /\ UNCHANGED SendFrame

InitSendMessage ==
    /\ currentState = BOOT
    /\ stateDetails = NoDetails
    /\ session = NoSession
    /\ tokenizerData = Null
    /\ modelReady = FALSE
    /\ embeddingCache = << >>
    /\ initInProgress = FALSE
    /\ initPromise = 0
    /\ readyEmitted = FALSE
    /\ initStarted = FALSE
    /\ initCompleted = FALSE
    /\ ortDefined = TRUE
    /\ model = Packaged
    /\ initPc = "idle"
    /\ runs = << >>
    /\ callers = [ c \in CallerIds |-> IdleCaller ]
    /\ inflight = << >>
    /\ sent = << >>
    /\ batch = NoBatch
    /\ returned = NoReturns
    /\ bg = NoBackground

NextSendMessage ==
    \/ \E target \in Targets : sendMessage(target)
    \/ \E i \in 1..Len(inflight) : TimeoutFires(i)
    \/ \E i \in 1..Len(inflight), resp \in Responses : ResponseArrives(i, resp)
    \/ \E i \in 1..Len(inflight) : sendMessageResumes(i)

SpecSendMessage == InitSendMessage /\ [][NextSendMessage]_vars

-----------------------------------------------------------------------------
(* TabSorterBackground.sortTabs.  bg is the TabSorterBackground object and *)
(* inflight the sortTabs calls made on it, finished ones included.         *)

\* new TabSorterBackground()
NewTabSorter == [ isProcessing |-> FALSE, categories |-> << >> ]

AlreadyProcessing == "Already processing tabs"
NoGroupsFound     == "No groups found to sort"

GroupingModes == { "groups", "windows" }

SortCalls == { i \in 1..Len(inflight) : inflight[i].kind = "sortTabs" }

SortFrame == << currentState, stateDetails, session, tokenizerData,
                modelReady, embeddingCache, initInProgress, initPromise,
                readyEmitted, initStarted, initCompleted, ortDefined, model,
                initPc, runs, callers, sent, batch, returned >>

\* a catch block of sortTabs that leaves the flag as it is
sortTabsCatch_KeepsFlag(b) == b

\* the catch block of sortTabs
sortTabsCatch(b) == [ b EXCEPT !.isProcessing = FALSE ]

\* the call returns { success, error }
SortReturn(call, success, error) ==
    [ call EXCEPT !.pc = "done", !.success = success, !.error = error ]

\* sortTabs(tabsToSort, settings) up to its first await: the guard, the
\* flag, then chrome.tabs.query (no tabs given) or analyzeTabs
sortTabs(given, mode) ==
    /\ Len(inflight) < MaxSorts
    /\ LET call == [ kind |-> "sortTabs", mode |-> mode, pc |-> "start",
                     held |-> FALSE, analysed |-> FALSE, moved |-> FALSE,
                     success |-> FALSE, error |-> Null ]
       IN  IF bg.isProcessing
           THEN /\ inflight' = Append(inflight,
                                  SortReturn(call, FALSE, AlreadyProcessing))
                /\ UNCHANGED bg
           ELSE /\ bg' = [ bg EXCEPT !.isProcessing = TRUE ]
                /\ inflight' = Append(inflight,
                      IF given
                      THEN [ call EXCEPT !.pc = "analyzeTabs", !.held = TRUE,
                                         !.analysed = TRUE ]
                      ELSE [ call EXCEPT !.pc = "query", !.held = TRUE ])
    /\ UNCHANGED SortFrame

\* await chrome.tabs.query resolved (ok), and analyzeTabs is called, or
\* rejected
AfterTabsQuery(i, ok) ==
    /\ i \in SortCalls
    /\ inflight[i].pc = "query"
    /\ IF ok
       THEN /\ inflight' = [ inflight EXCEPT ![i].pc = "analyzeTabs",
                                             ![i].analysed = TRUE ]
            /\ UNCHANGED bg
       ELSE /\ bg' = sortTabsCatch(bg)
            /\ inflight' = [ inflight EXCEPT
                  ![i] = SortReturn(@, FALSE, "query failed") ]
    /\ UNCHANGED SortFrame

AnalysisOutcomes == { "groups", "empty", "throws" }

\* await this.analyzeTabs resolved with categories (sortIntoGroups or
\* sortIntoWindows is called) or with none, or rejected
AfterAnalyzeTabs(i, outcome) ==
    /\ i \in SortCalls
    /\ inflight[i].pc = "analyzeTabs"
    /\ CASE outcome = "groups" ->
              /\ inflight' = [ inflight EXCEPT ![i].pc = "sortInto",
                                               ![i].moved = TRUE ]
              /\ UNCHANGED bg
         [] outcome = "empty" ->
              /\ bg' = [ bg EXCEPT !.isProcessing = FALSE ]
              /\ inflight' = [ inflight EXCEPT
                    ![i] = SortReturn(@, FALSE, NoGroupsFound) ]
         [] outcome = "throws" ->
              /\ bg' = sortTabsCatch(bg)
              /\ inflight' = [ inflight EXCEPT
                    ![i] = SortReturn(@, FALSE, "analysis failed") ]
    /\ UNCHANGED SortFrame

\* await sortIntoWindows / sortIntoGroups resolved; sortIntoGroups rejects
\* when chrome.windows.getCurrent does, sortIntoWindows catches every error
AfterSortInto(i, ok) ==
    /\ i \in SortCalls
    /\ inflight[i].pc = "sortInto"
    /\ ~ok => inflight[i].mode = "groups"
    /\ IF ok
       THEN /\ bg' = [ bg EXCEPT !.isProcessing = FALSE ]
            /\ inflight' = [ inflight EXCEPT ![i] = SortReturn(@, TRUE, Null) ]
       ELSE /\ bg' = sortTabsCatch(bg)
            /\ inflight' = [ inflight EXCEPT
                  ![i] = SortReturn(@, FALSE, "no current window") ]
    /\ UNCHANGED SortFrame

InitSortTabs ==
    /\ currentState = BOOT
    /\ stateDetails = NoDetails
    /\ session = NoSession
    /\ tokenizerData = Null
    /\ modelReady = FALSE
    /\ embeddingCache = << >>
    /\ initInProgress = FALSE
    /\ initPromise = 0
    /\ readyEmitted = FALSE
    /\ initStarted = FALSE
    /\ initCompleted = FALSE
    /\ ortDefined = TRUE
    /\ model = Packaged
    /\ initPc = "idle"
    /\ runs = << >>
    /\ callers = [ c \in CallerIds |-> IdleCaller ]
    /\ inflight = << >>
    /\ sent = << >>
    /\ batch = NoBatch
    /\ returned = NoReturns
    /\ bg = NewTabSorter

NextSortTabs ==
    \/ \E given \in BOOLEAN, mode \in GroupingModes : sortTabs(given, mode)
    \/ \E i \in 1..Len(inflight), ok \in BOOLEAN : AfterTabsQuery(i, ok)
    \/ \E i \in 1..Len(inflight), outcome \in AnalysisOutcomes :
          AfterAnalyzeTabs(i, outcome)
    \/ \E i \in 1..Len(inflight), ok \in BOOLEAN : AfterSortInto(i, ok)

SpecSortTabs == InitSortTabs /\ [][NextSortTabs]_vars

-----------------------------------------------------------------------------
(* generateGroupLabels on one group (SpecLabels): the READY document      *)
(* labels a group that groupTabsBySimilarity returned.  The group's tabs  *)
(* are 2 to MaxGroupTabs tabs of LabelPool, whose titles and hosts give   *)
(* category scores of 0, 1 and 2, one or two domains, or none.            *)

MaxGroupTabs == 3     \* tabs in the labelled group

LabelPool ==
    << [ id |-> 11, title |-> "React hooks", url |-> "https://github.com/" ],
       [ id |-> 12, title |-> "Vue guide", url |-> "https://www.vuejs.org/" ],
       [ id |-> 13, title |-> "Shop cart", url |-> "not a url" ],
       [ id |-> 14, title |-> "Home", url |-> "https://example.org/" ],
       [ id |-> 15, title |-> "Home", url |-> "https://www.vuejs.org/" ],
       [ id |-> 16, title |-> "", url |-> "https://www.vuejs.org/" ],
       [ id |-> 17, title |-> "Home", url |-> "not a url" ],
       [ id |-> 18, title |-> "", url |-> "not a url" ] >>

\* the member lists of a group: distinct tabs, in input order
LabelLists ==
    UNION { { l \in [ 1..n -> 1..Len(LabelPool) ] :
                \A a, b \in 1..n : a # b => l[a] # l[b] } : n \in 2..MaxGroupTabs }

\* a group as groupTabsBySimilarity builds it
GroupOf(l) ==
    [ tabs       |-> [ k \in 1..Len(l) |-> LabelPool[l[k]] ],
      embeddings |-> [ k \in 1..Len(l) |-> Vec(3, 4) ],
      indices    |-> [ k \in 1..Len(l) |-> k ] ]

InitLabels ==
    /\ model = [ hidden |-> EmbeddingDim,
                 pooled |-> [ t \in Texts |-> << 6, 8 >> ],
                 outputNames |-> << "last_hidden_state" >>,
                 preConfig |-> TRUE, transport |-> "chrome",
                 wasm |-> "ok" ]
    /\ ReadyDocument
    /\ embeddingCache =
          << [ key |-> "warmup test",
               value |-> ComputeEmbedding("warmup test", EmbeddingDim) ] >>

\* generateGroupLabels(groups) for one group
GenerateGroupLabels(group) ==
    /\ batch.pc = "idle"
    /\ batch' = [ NoBatch EXCEPT !.pc = "labeled",
                                 !.tabs = group.tabs,
                                 !.result = [ groups |-> << group >>,
                                              ungrouped |-> << >> ],
                                 !.labeled = generateGroupLabels(<< group >>) ]
    /\ UNCHANGED embeddingCache
    /\ UNCHANGED BatchFrame

NextLabels == \E l \in LabelLists : GenerateGroupLabels(GroupOf(l))

SpecLabels == InitLabels /\ [][NextLabels]_vars

-----------------------------------------------------------------------------
(* The service worker and its offscreen document (SpecBackground):        *)
(* TabManager creates the document, waits for its 'ai:ready', sends       *)
(* PROCESS_TABS and falls back to groupTabsByDomain.  One operation of    *)
(* the service worker runs at a time; the document runs its lifecycle     *)
(* while it exists, and may close at any moment.                          *)

\* the tabs chrome.windows.getAll may report: up to MaxTabs tabs of the
\* pool, in pool order
WindowTabLists ==
    { l \in TabLists : \A a, b \in 1..Len(l) : a < b => l[a] < l[b] }

\* threshold of the PROCESS_TABS message of groupTabsWithAI (0.45)
BackgroundThreshold == 45

\* the offscreen script runs in a new document: new RealAIProcessor()
ConstructDocument ==
    /\ currentState' = BOOT
    /\ stateDetails' = NoDetails
    /\ session' = NoSession
    /\ tokenizerData' = Null
    /\ modelReady' = FALSE
    /\ embeddingCache' = << >>
    /\ initInProgress' = FALSE
    /\ initPromise' = 0
    /\ readyEmitted' = FALSE
    /\ initStarted' = FALSE
    /\ initCompleted' = FALSE
    /\ initPc' = "idle"
    /\ runs' = << >>
    /\ callers' = [ c \in CallerIds |-> IdleCaller ]
    /\ inflight' = << >>
    /\ sent' = << >>
    /\ batch' = NoBatch
    /\ returned' = NoReturns
    /\ UNCHANGED << ortDefined, model >>

OffscreenFrame == << currentState, stateDetails, session, tokenizerData,
                     modelReady, embeddingCache, initInProgress, initPromise,
                     readyEmitted, initStarted, initCompleted, ortDefined,
                     model, initPc, runs, callers, inflight, sent, batch,
                     returned >>

\* grouping is over: sortTabs goes on to create the groups, getTabStats
\* returns
Grouped(b, groups) ==
    [ b EXCEPT !.pc = IF b.op = "sortTabs" THEN "create" ELSE "done",
               !.ret = "none", !.grouped = groups ]

\* the fallback that forgets the tabs and answers no group at all
DomainFallback_NoGroups(b) == Grouped(b, << >>)

\* return this.groupTabsByDomain(), in groupTabsWithAI and in the catch of
\* sortTabs and getTabStats
DomainFallback(b) == Grouped(b, groupTabsByDomain(b.tabs))

\* initializeOffscreen() returned to the code that awaited it
InitializeReturns(b) ==
    CASE b.ret = "installed" -> [ b EXCEPT !.pc = "done", !.ret = "none" ]
      [] b.ret = "group" ->
            IF ~b.offscreenReady THEN DomainFallback(b)
            ELSE [ b EXCEPT !.pc = "ai:hasDocument", !.ret = "none" ]
      [] b.ret = "regroup" ->
            IF ~b.offscreenReady THEN DomainFallback(b)
            ELSE [ b EXCEPT !.pc = "ai:process", !.ret = "none" ]

\* initializeOffscreen() rejected: the onInstalled listener has no catch;
\* groupTabsWithAI rejects into the catch of sortTabs / getTabStats, or
\* its own catch around the re-initialization
InitializeRejects(b) ==
    IF b.ret = "installed"
    THEN [ b EXCEPT !.pc = "done", !.ret = "none", !.threw = TRUE ]
    ELSE DomainFallback(b)

\* the catch of initializeOffscreen, up to its await of storage.local.set
InitializeCatch(b) ==
    [ b EXCEPT !.pc = "init:store", !.aiMode = FALSE, !.listening = FALSE ]

\* chrome.runtime.onInstalled: await tabManager.initializeOffscreen()
OnInstalled ==
    /\ bg.pc = "idle"
    /\ bg' = [ bg EXCEPT !.pc = "init:hasDocument", !.op = "onInstalled",
                         !.ret = "installed" ]
    /\ UNCHANGED OffscreenFrame

\* a sortTabs or getTabStats request: await collectAllTabs()
TabRequest(op) ==
    /\ bg.pc = "idle"
    /\ bg' = [ bg EXCEPT !.pc = "collect", !.op = op ]
    /\ UNCHANGED OffscreenFrame

\* collectAllTabs returned: group by domain, or enter groupTabsWithAI and
\* initializeOffscreen up to hasDocument()
AfterCollectAllTabs(l) ==
    /\ bg.pc = "collect"
    /\ LET b == [ bg EXCEPT !.tabs = TabsOf(l) ]
       IN  bg' = IF b.aiMode
                 THEN [ b EXCEPT !.pc = "init:hasDocument", !.ret = "group" ]
                 ELSE DomainFallback(b)
    /\ UNCHANGED OffscreenFrame

\* initializeOffscreen: chrome.offscreen.hasDocument() answered or threw
AfterHasDocument(ok) ==
    /\ bg.pc = "init:hasDocument"
    /\ bg' = IF ~ok THEN InitializeRejects(bg)
             ELSE IF bg.doc
             THEN InitializeReturns([ bg EXCEPT !.offscreenReady = TRUE ])
             ELSE [ bg EXCEPT !.pc = "init:create" ]
    /\ UNCHANGED OffscreenFrame

\* initializeOffscreen: createDocument resolved (the document exists and
\* runs its script) or rejected
AfterCreateDocument(ok) ==
    /\ bg.pc = "init:create"
    /\ IF ok
       THEN /\ bg' = [ bg EXCEPT !.pc = "init:wait", !.doc = TRUE,
                                 !.delivered = 0 ]
            /\ ConstructDocument
       ELSE /\ bg' = InitializeCatch(bg)
            /\ UNCHANGED OffscreenFrame

\* initializeOffscreen: the 100 ms wait is over, the listener and the
\* 90 s timer are installed
AfterLoadDelay ==
    /\ bg.pc = "init:wait"
    /\ bg' = [ bg EXCEPT !.pc = "init:listen", !.listening = TRUE ]
    /\ UNCHANGED OffscreenFrame

\* a message of the offscreen document reaches the service worker; the
\* listener of initializeOffscreen, if installed, settles on 'ai:ready'
\* and 'ai:error'
DeliverMessage ==
    /\ bg.doc
    /\ bg.delivered < Len(sent)
    /\ LET message == sent[bg.delivered + 1]
           b == [ bg EXCEPT !.delivered = @ + 1 ]
       IN  bg' = IF b.listening /\ message.type = "ai:ready"
                 THEN InitializeReturns([ b EXCEPT !.listening = FALSE,
                                                   !.offscreenReady = TRUE ])
                 ELSE IF b.listening /\ message.type = "ai:error"
                 THEN InitializeCatch(b)
                 ELSE b
    /\ UNCHANGED OffscreenFrame

\* the 90 s timer of initializeOffscreen fires
InitTimeout ==
    /\ bg.listening
    /\ bg' = InitializeCatch(bg)
    /\ UNCHANGED OffscreenFrame

\* the catch of initializeOffscreen: storage.local.set resolved or rejected
AfterStorageSet(ok) ==
    /\ bg.pc = "init:store"
    /\ bg' = IF ok THEN InitializeReturns(bg) ELSE InitializeRejects(bg)
    /\ UNCHANGED OffscreenFrame

\* groupTabsWithAI: the second hasDocument() answered or threw
AfterDoubleCheck(ok) ==
    /\ bg.pc = "ai:hasDocument"
    /\ bg' = IF ~ok THEN DomainFallback(bg)
             ELSE IF bg.doc THEN [ bg EXCEPT !.pc = "ai:process" ]
             ELSE [ bg EXCEPT !.pc = "init:hasDocument", !.ret = "regroup",
                              !.offscreenReady = FALSE ]
    /\ UNCHANGED OffscreenFrame

\* the document receives the PROCESS_TABS message of groupTabsWithAI
ReceiveProcessTabs ==
    /\ bg.pc = "ai:process"
    /\ bg.doc
    /\ ProcessTabs(bg.tabs, EffectiveThreshold(BackgroundThreshold))

\* groupTabsWithAI: sendMessage resolved.  A request refused because the
\* processor is not READY is answered at once with success: false.  An
\* accepted request is answered after awaits of the handler: the answer
\* arrives if the port was kept open, otherwise the response is undefined.
AfterProcessTabs(kept) ==
    /\ bg.pc = "ai:process"
    /\ bg.doc
    /\ batch.pc \in { "refused", "done" }
    /\ batch.pc = "refused" => kept
    /\ bg' = IF batch.pc = "refused"
             THEN DomainFallback([ bg EXCEPT !.response = "refused" ])
             ELSE IF ~kept
             THEN DomainFallback([ bg EXCEPT !.response = "lost" ])
             ELSE Grouped([ bg EXCEPT !.response = "success" ],
                          formattedGroups(batch.labeled))
    /\ batch' = NoBatch
    /\ UNCHANGED << currentState, stateDetails, session, tokenizerData,
                    modelReady, embeddingCache, initInProgress, initPromise,
                    readyEmitted, initStarted, initCompleted, ortDefined,
                    model, initPc, runs, callers, inflight, sent, returned >>

\* groupTabsWithAI: sendMessage rejected because the document is gone;
\* offscreenReady is cleared when the error says 'message port closed'
ProcessTabsFails(portClosed) ==
    /\ bg.pc = "ai:process"
    /\ ~bg.doc
    /\ bg' = DomainFallback([ bg EXCEPT !.response = "failed",
                 !.offscreenReady = IF portClosed THEN FALSE ELSE @ ])
    /\ UNCHANGED OffscreenFrame

\* sortTabs: createTabGroups / createWindows returned their result
AfterCreateTabGroups(ok) ==
    /\ bg.pc = "create"
    /\ bg' = [ bg EXCEPT !.pc = "done", !.created = ok ]
    /\ UNCHANGED OffscreenFrame

\* the operation's promise settled (sendResponse); the worker is at rest
OperationEnds ==
    /\ bg.pc = "done"
    /\ bg' = [ bg EXCEPT !.pc = "idle", !.op = "none", !.tabs = << >>,
                         !.response = "none", !.grouped = << >>,
                         !.threw = FALSE, !.created = FALSE ]
    /\ UNCHANGED OffscreenFrame

\* onMessage, action 'toggleAIMode'
ToggleAIMode(enabled) ==
    /\ bg.aiMode # enabled
    /\ bg' = [ bg EXCEPT !.aiMode = enabled ]
    /\ UNCHANGED OffscreenFrame

\* the offscreen document closes or crashes: its script state is gone
DocumentCloses ==
    /\ bg.doc
    /\ bg' = [ bg EXCEPT !.doc = FALSE, !.delivered = 0 ]
    /\ ConstructDocument

InitBackground ==
    /\ currentState = BOOT
    /\ stateDetails = NoDetails
    /\ session = NoSession
    /\ tokenizerData = Null
    /\ modelReady = FALSE
    /\ embeddingCache = << >>
    /\ initInProgress = FALSE
    /\ initPromise = 0
    /\ readyEmitted = FALSE
    /\ initStarted = FALSE
    /\ initCompleted = FALSE
    /\ ortDefined = TRUE
    /\ model = [ hidden |-> EmbeddingDim,
                 pooled |-> [ t \in Texts \cup TabTexts |->
                                IF t = "Buy mouse" THEN << 0, 5 >>
                                ELSE << 6, 8 >> ],
                 outputNames |-> << "last_hidden_state" >>,
                 preConfig |-> TRUE, transport |-> "chrome",
                 wasm |-> "ok" ]
    /\ initPc = "idle"
    /\ runs = << >>
    /\ callers = [ c \in CallerIds |-> IdleCaller ]
    /\ inflight = << >>
    /\ sent = << >>
    /\ batch = NoBatch
    /\ returned = NoReturns
    /\ bg \in { [ NoBackground EXCEPT !.aiMode = m ] : m \in BOOLEAN }

NextBackground ==
    \/ OnInstalled
    \/ \E op \in { "sortTabs", "getTabStats" } : TabRequest(op)
    \/ \E l \in WindowTabLists : AfterCollectAllTabs(l)
    \/ \E ok \in BOOLEAN : AfterHasDocument(ok)
    \/ \E ok \in BOOLEAN : AfterCreateDocument(ok)
    \/ AfterLoadDelay
    \/ DeliverMessage
    \/ InitTimeout
    \/ \E ok \in BOOLEAN : AfterStorageSet(ok)
    \/ \E ok \in BOOLEAN : AfterDoubleCheck(ok)
    \/ ReceiveProcessTabs
    \/ \E kept \in BOOLEAN : AfterProcessTabs(kept)
    \/ \E portClosed \in BOOLEAN : ProcessTabsFails(portClosed)
    \/ \E ok \in BOOLEAN : AfterCreateTabGroups(ok)
    \/ OperationEnds
    \/ \E enabled \in BOOLEAN : ToggleAIMode(enabled)
    \/ DocumentCloses
    \/ bg.doc /\ OnDocumentReady
    \/ bg.doc /\ CallerResume(StartCaller)
    \/ bg.doc /\ AfterConfigure
    \/ bg.doc /\ AfterVerifyWASMFiles
    \/ \E ok \in BOOLEAN : bg.doc /\ AfterLoadModel(ok)
    \/ \E ok \in BOOLEAN : bg.doc /\ AfterLoadTokenizer(ok)
    \/ \E i \in 1..Len(inflight), ok \in BOOLEAN : bg.doc /\ AfterWarmUp(i, ok)
    \/ \E ok \in BOOLEAN : bg.doc /\ generateEmbeddings(ok)

SpecBackground == InitBackground /\ [][NextBackground]_vars

-----------------------------------------------------------------------------
(* groupTabsByDomain on a tab list (SpecDomains): the service worker at   *)
(* rest groups this.tabs, up to MaxTabs tabs of DomainPool in any order.  *)

DomainPool ==
    << [ id |-> 21, title |-> "React hooks", url |-> "https://github.com/" ],
       [ id |-> 22, title |-> "React hooks", url |-> "https://www.github.com/x" ],
       [ id |-> 23, title |-> "Vue guide", url |-> "https://www.vuejs.org/" ],
       [ id |-> 24, title |-> "Home", url |-> "https://static-www.example.com/" ],
       [ id |-> 25, title |-> "Home", url |-> "https://static-example.com/" ],
       [ id |-> 26, title |-> "Buy mouse", url |-> "not a url" ] >>

DomainLists ==
    UNION { { l \in [ 1..n -> 1..Len(DomainPool) ] :
                \A a, b \in 1..n : a # b => l[a] # l[b] } : n \in 0..MaxTabs }

\* this.groupTabsByDomain() with this.tabs = tabs
GroupTabsByDomain(tabs) ==
    /\ bg.pc = "idle"
    /\ bg' = [ bg EXCEPT !.pc = "done", !.op = "groupTabsByDomain",
                         !.tabs = tabs, !.grouped = groupTabsByDomain(tabs) ]
    /\ UNCHANGED OffscreenFrame

NextDomains ==
    \E l \in DomainLists :
        GroupTabsByDomain([ k \in 1..Len(l) |-> DomainPool[l[k]] ])

SpecDomains == InitBackground /\ [][NextDomains]_vars

-----------------------------------------------------------------------------
(* Properties of the offscreen document (Spec) *)

Sent(type) == { i \in 1..Len(sent) : sent[i].type = type }
SentBy(type, run) ==
    { i \in 1..Len(sent) : sent[i].type = type /\ sent[i].run = run }

PendingRuns == { r \in 1..Len(runs) : runs[r].status = "pending" }
InFlight == PendingRuns # { }
Waiting(c) == callers[c].pos \in { "first", "joined" }
Settled == ~initInProgress /\ \A c \in CallerIds : ~Waiting(c) /\ callers[c].pos # "returned"

\* C2: single-flight initialization.  At most one performInitialization
\* run is executing; an initialize() call made while a run is in flight
\* starts no run and awaits the promise of that run; every caller settles
\* with the status and the error of the run it awaited.
C2_OneRunAtATime ==
    /\ Cardinality(PendingRuns) <= 1
    /\ \A r \in 1..Len(runs) : r < Len(runs) => runs[r].status # "pending"
    /\ \A c \in CallerIds :
          /\ (Waiting(c) /\ InFlight) => callers[c].run = ThisRun
          /\ (callers[c].pos = "done" /\ callers[c].run > 0) =>
                /\ callers[c].outcome = runs[callers[c].run].status
                /\ callers[c].err = runs[callers[c].run].err

C2_CallJoins ==
    \A c \in CallerIds :
        (InFlight /\ callers[c].pos = "idle" /\ callers'[c].pos # "idle")
            => /\ runs' = runs
               /\ callers'[c].pos = "joined"
               /\ callers'[c].run = ThisRun

C2_SingleFlight == [] C2_OneRunAtATime /\ [][C2_CallJoins]_vars

\* C2 witness: two callers awaited the same run and both were rejected
\* with its error
C2_Witness ==
    \E c \in InitMsgs :
        /\ callers[c].pos = "done" /\ callers[StartCaller].pos = "done"
        /\ callers[c].run = callers[StartCaller].run
        /\ callers[c].run > 0
        /\ callers[c].outcome = "rejected"
        /\ callers[StartCaller].outcome = "rejected"

\* C3: an embedding request made while currentState is not READY (the
\* warm-up aside) is refused, and no request that ends while currentState
\* is not READY changes embeddingCache.
C3_Step ==
    /\ Cardinality(Requests') > Cardinality(Requests) => currentState = READY
    /\ (Cardinality(Requests') < Cardinality(Requests) /\ currentState # READY)
          => embeddingCache' = embeddingCache

C3_NotReadyRefused == [][C3_Step]_vars

\* C4: a run that failed at stage S leaves currentState ERROR with
\* stateDetails.stage = S, rejects every caller with that error, and every
\* 'ai:error' envelope of the run names S and S's resource.
C4_FailureNamesStage ==
    \A r \in 1..Len(runs) :
        runs[r].status = "rejected" =>
            /\ \A i \in SentBy("ai:error", r) :
                  sent[i].origin = "emitError" =>
                      /\ sent[i].stage = runs[r].failed
                      /\ sent[i].resource = getResourceForStage(runs[r].failed)
            /\ r = ThisRun =>
                  /\ currentState = ERROR
                  /\ stateDetails.stage = runs[r].failed
            /\ \A c \in CallerIds :
                  (callers[c].pos = "done" /\ callers[c].run = r) =>
                      (callers[c].outcome = "rejected" /\ callers[c].err = runs[r].err)

\* C5: once startInitialization has run and every caller has been answered,
\* a document whose processor reached READY has sent exactly one 'ai:ready'.
C5_ReadyNotified ==
    (Settled /\ callers[StartCaller].pos = "done" /\ currentState = READY)
        => Cardinality(Sent("ai:ready")) = 1

\* C6: 'ai:ready' is sent at most once in a document lifetime.
C6_ReadyAtMostOnce == Cardinality(Sent("ai:ready")) <= 1

\* C6 witness: 'ai:ready' has been sent and a later path to it (a second
\* successful initialize() caller) has completed without sending another
C6_Witness ==
    /\ Cardinality(Sent("ai:ready")) = 1
    /\ readyEmitted
    /\ \E c \in InitMsgs : callers[c].pos = "done" /\ callers[c].outcome = "resolved"

\* C7: a failed run whose callers have all been answered has sent exactly
\* one 'ai:error'.
C7_ErrorOnce ==
    \A r \in 1..Len(runs) :
        (runs[r].status = "rejected"
            /\ \A c \in CallerIds : callers[c].run = r => callers[c].pos = "done")
        => Cardinality(SentBy("ai:error", r)) = 1

-----------------------------------------------------------------------------
(* Properties of PROCESS_TABS (SpecBatch) *)

Answered == batch.pc = "done" /\ batch.success

\* the tabs of the result: the members of every group, then ungrouped
RECURSIVE Flatten(_)
Flatten(groups) ==
    IF groups = << >> THEN << >>
    ELSE Head(groups).tabs \o Flatten(Tail(groups))

Placed(result) == Flatten(result.groups) \o result.ungrouped

Occurrences(seq, x) == Cardinality({ k \in 1..Len(seq) : seq[k] = x })

\* C1: the result of groupTabsBySimilarity places no tab in two groups, and
\* every input tab occurs exactly once among the members of all groups and
\* ungrouped (so a seed that attracted no member is in ungrouped).
C1_Partition ==
    Answered =>
        /\ \A k \in 1..Len(batch.tabs) :
              Occurrences(Flatten(batch.result.groups), batch.tabs[k]) <= 1
        /\ \A k \in 1..Len(batch.tabs) :
              Occurrences(Placed(batch.result), batch.tabs[k]) = 1

\* C9: in READY, generateEmbeddings returns one vector per text, in input
\* order: the embedding of the text, or the 384-element zero vector where
\* inference for that text failed; while it runs it has one vector for each
\* text handled so far.
C9_BatchYieldsN ==
    batch.pc \in { "embedding", "done" } /\ currentState = READY =>
        /\ batch.pc = "done" => /\ batch.success
                                /\ Len(batch.embeddings) = Len(batch.texts)
        /\ Len(batch.embeddings) = Len(batch.failed)
        /\ Len(batch.embeddings) <= Len(batch.texts)
        /\ \A k \in 1..Len(batch.embeddings) :
              batch.embeddings[k] =
                 IF batch.failed[k] THEN [ dim |-> 384, lead |-> << 0, 0 >> ]
                 ELSE ComputeEmbedding(batch.texts[k], EmbeddingDim)

\* C9 witness: a batch of at least two texts returned with a failed item
\* followed by a successful one
C9_Witness ==
    /\ Answered
    /\ Len(batch.texts) >= 2
    /\ \E k \in 1..Len(batch.failed) - 1 : batch.failed[k] /\ ~batch.failed[k + 1]

-----------------------------------------------------------------------------
(* Properties of the embedding cache (SpecCache) *)

\* C10: embeddingCache never holds more than 500 entries.
C10_CacheBounded == Len(embeddingCache) <= 500

\* C10 witness: the cache is full and its oldest entry has been evicted
C10_Witness ==
    /\ Len(embeddingCache) = 500
    /\ embeddingCache[1].key # "warmup test"
    /\ \E k \in 1..Len(embeddingCache) : embeddingCache[k].key \in NewKeys

-----------------------------------------------------------------------------
(* Properties of the service worker (SpecBackground) *)

\* a sortTabs or getTabStats operation has produced its answer
TabOperationDone == bg.pc = "done" /\ bg.op \in { "sortTabs", "getTabStats" }

CacheKeys(cache) == [ k \in 1..Len(cache) |-> cache[k].key ]

\* C11: eviction is first-in-first-out.  A step that changes the cache
\* either rewrites the value of a key in place, or appends a new key and,
\* if that makes 501 entries, drops exactly the oldest one; a call answered
\* from the cache returns the stored vector, starts no inference and leaves
\* the cache (contents and order) as it was.
C11_Step ==
    /\ embeddingCache' # embeddingCache =>
          LET e == embeddingCache'[Len(embeddingCache')]
          IN  IF CacheKeys(embeddingCache') = CacheKeys(embeddingCache)
              THEN Cardinality({ j \in 1..Len(embeddingCache) :
                      embeddingCache'[j] # embeddingCache[j] }) = 1
              ELSE /\ ~CacheHas(embeddingCache, e.key)
                   /\ embeddingCache' =
                         IF Len(embeddingCache) < 500
                         THEN Append(embeddingCache, e)
                         ELSE Tail(Append(embeddingCache, e))
    /\ (returned' # returned /\ returned'.last.how = "hit") =>
          /\ embeddingCache' = embeddingCache
          /\ inflight' = inflight
          /\ CacheHas(embeddingCache, returned'.last.text)
          /\ returned'.last.value = CacheGet(embeddingCache, returned'.last.text)

C11_FifoEviction == [][C11_Step]_vars

\* C11 witness: the oldest key was read from the cache and was evicted
\* all the same when a new key made the cache overflow
C11_Witness ==
    /\ Len(embeddingCache) = 500
    /\ ReturnedBefore(returned, "warmup test")
    /\ ~CacheHas(embeddingCache, "warmup test")
    /\ embeddingCache[1].key = CacheKey(1)
    /\ returned.last.how = "miss"
    /\ embeddingCache[500].key = returned.last.text

-----------------------------------------------------------------------------
(* Properties of the clustering (SpecBatch) *)

\* the number of tabs placed in groups
GroupedCount(result) == Len(Flatten(result.groups))

\* C12: threshold monotonicity.  For the tabs and embeddings of an answered
\* request, clustering at any lower threshold places at least as many tabs
\* in groups as the request's threshold did.
C12_ThresholdMonotone ==
    Answered =>
        \A m \in MsgThresholds :
            EffectiveThreshold(m) < batch.threshold =>
                GroupedCount(batch.result) <=
                    GroupedCount(Cluster(batch.tabs, batch.embeddings,
                                         EffectiveThreshold(m)))

-----------------------------------------------------------------------------
(* Properties of the lifecycle (Spec) *)

\* the states currentState has taken: BOOT at construction, then the
\* state of every transitionToState, which broadcasts it as 'ai:status'
StateTrace ==
    LET status == SelectSeq(sent, LAMBDA m : m.type = "ai:status")
    IN  << [ stage |-> BOOT, run |-> 0 ] >> \o
        [ k \in 1..Len(status) |->
            [ stage |-> status[k].stage, run |-> status[k].run ] ]

\* the position of a stage in BOOT .. READY (0 for ERROR)
RECURSIVE StageIndex(_, _)
StageIndex(stage, k) ==
    IF k > Len(Stages) THEN 0
    ELSE IF Stages[k] = stage THEN k ELSE StageIndex(stage, k + 1)

\* C13: transitions are monotonic.  Each transition either advances one
\* stage within the same attempt, or goes from a state other than READY to
\* ERROR, or goes from ERROR to BOOT at the start of the next attempt (the
\* first attempt starting in the BOOT of the construction).
C13_MonotonicTransitions ==
    /\ currentState = StateTrace[Len(StateTrace)].stage
    /\ \A k \in 1..Len(StateTrace) - 1 :
          LET a == StateTrace[k]
              b == StateTrace[k + 1]
          IN  \/ /\ k = 1
                 /\ b.stage = BOOT /\ b.run = 1
              \/ /\ a.stage # ERROR /\ a.stage # READY /\ b.stage # ERROR
                 /\ b.run = a.run
                 /\ StageIndex(b.stage, 1) = StageIndex(a.stage, 1) + 1
              \/ /\ a.stage # READY /\ a.stage # ERROR
                 /\ b.stage = ERROR /\ b.run = a.run
              \/ /\ a.stage = ERROR
                 /\ b.stage = BOOT /\ b.run = a.run + 1

\* C13 witness: an attempt failed, and the next attempt went from ERROR
\* through BOOT and every stage to READY
C13_Witness ==
    /\ currentState = READY
    /\ \E k \in 1..Len(StateTrace) - 1 :
          /\ StateTrace[k].stage = ERROR
          /\ StateTrace[k + 1].stage = BOOT
          /\ Len(StateTrace) = k + 1 + Len(Stages)

\* caller c enters initialize() in this step
Enters(c) == callers[c].pos = "idle" /\ callers'[c].pos # "idle"

\* C14: initialize() in READY is a no-op success.  READY is never left; a
\* call of initialize() made in READY returns at once, leaving currentState,
\* stateDetails, session, tokenizerData and the cache alone, starting no run
\* and no stage and sending nothing; and the call resolves.
C14_Step ==
    /\ currentState = READY => currentState' = READY
    /\ \A c \in CallerIds :
          (currentState = READY /\ Enters(c)) =>
              /\ callers'[c].pos = "returned"
              /\ UNCHANGED << currentState, stateDetails, session,
                              tokenizerData, modelReady, embeddingCache, runs,
                              initPc, initInProgress, initPromise, inflight,
                              sent >>
    /\ \A c \in CallerIds :
          (callers[c].pos = "returned" /\ callers'[c].pos # "returned") =>
              /\ callers'[c].pos = "done"
              /\ callers'[c].outcome = "resolved"
              /\ UNCHANGED << currentState, stateDetails, session,
                              tokenizerData, modelReady, embeddingCache, runs,
                              initPc >>

C14_ReadyNoOp == [][C14_Step]_vars

\* C14 witness: an INIT_AI message found the processor READY, and its
\* initialize() call resolved without joining or starting a run
C14_Witness ==
    /\ currentState = READY
    /\ \E c \in InitMsgs :
          /\ callers[c].pos = "done"
          /\ callers[c].run = 0
          /\ callers[c].outcome = "resolved"

-----------------------------------------------------------------------------
(* Properties of the groups and their labels (SpecBatch) *)

\* C15: every group of an answered request has at least 2 tabs, and its
\* tabs, embeddings and indices are parallel: equal lengths, position k of
\* each is the input item indices[k], and indices ascend from the seed.
C15_ParallelArrays ==
    Answered =>
        \A g \in 1..Len(batch.result.groups) :
            LET group == batch.result.groups[g]
            IN  /\ Len(group.tabs) >= 2
                /\ Len(group.embeddings) = Len(group.tabs)
                /\ Len(group.indices) = Len(group.tabs)
                /\ \A k \in 1..Len(group.indices) :
                      /\ group.indices[k] \in 1..Len(batch.tabs)
                      /\ group.tabs[k] = batch.tabs[group.indices[k]]
                      /\ group.embeddings[k] = batch.embeddings[group.indices[k]]
                      /\ k > 1 => group.indices[k - 1] < group.indices[k]

\* C15 witness: a group of three tabs whose second member is not the
\* seed's neighbour in the input
C15_Witness ==
    /\ Answered
    /\ \E g \in 1..Len(batch.result.groups) :
          /\ Len(batch.result.groups[g].indices) >= 3
          /\ batch.result.groups[g].indices[2] >
                batch.result.groups[g].indices[1] + 1

\* C16: every group of an answered request with threshold t reports a
\* confidence c with t < c <= 1.
C16_ConfidenceInRange ==
    Answered =>
        \A g \in 1..Len(batch.labeled) :
            LET c == batch.labeled[g].confidence
            IN  /\ batch.threshold * c.den < c.num
                /\ c.num <= SimScale * c.den

-----------------------------------------------------------------------------
(* Properties of the labels (SpecLabels) *)

Labeled == batch.pc = "labeled"

\* the corpus of a group: its lower-cased titles and its distinct domains
Corpus(tabs) ==
    { ToLowerCase(tabs[k].title) : k \in 1..Len(tabs) } \cup
    { ReplaceWww(Hostname(tabs[k].url)) :
        k \in { i \in 1..Len(tabs) : UrlValid(tabs[i].url) } }

\* the number of keywords of category c that occur in the corpus
Score(tabs, c) ==
    Cardinality({ kw \in UNION { KeywordsIn(p) : p \in Corpus(tabs) } :
                    kw[1] = Categories[c] })

Scoring(tabs) == \E c \in 1..Len(Categories) : Score(tabs, c) > 0

\* C17: when some category scores above zero, the label names the category
\* with the highest score, and among the categories with that score the
\* one declared first.
C17_BestCategory ==
    Labeled =>
        \A g \in 1..Len(batch.labeled) :
            LET tabs == batch.labeled[g].tabs
            IN  Scoring(tabs) =>
                  \E c \in 1..Len(Categories) :
                     /\ batch.labeled[g].label =
                           Emoji(Categories[c]) \o " " \o Categories[c]
                     /\ \A d \in 1..Len(Categories) :
                           /\ Score(tabs, d) <= Score(tabs, c)
                           /\ Score(tabs, d) = Score(tabs, c) => c <= d

\* C17 witness: a labelled group in which a category declared later has a
\* strictly higher score than an earlier category that also scores, and a
\* third category ties with the earlier one
C17_Witness ==
    /\ Labeled
    /\ \E c, d, e \in 1..Len(Categories) :
          /\ c < d /\ c < e /\ d # e
          /\ 0 < Score(batch.tabs, c)
          /\ Score(batch.tabs, c) < Score(batch.tabs, d)
          /\ Score(batch.tabs, e) = Score(batch.tabs, c)
          /\ batch.labeled[1].label =
                Emoji(Categories[d]) \o " " \o Categories[d]

\* the domains of a group's tabs, and how many tabs have each
Domains(tabs) ==
    { ReplaceWww(Hostname(tabs[k].url)) :
        k \in { i \in 1..Len(tabs) : UrlValid(tabs[i].url) } }

TabsAt(tabs, d) ==
    Cardinality({ k \in 1..Len(tabs) :
                    UrlValid(tabs[k].url) /\ ReplaceWww(Hostname(tabs[k].url)) = d })

MostCommon(tabs) ==
    { d \in Domains(tabs) : \A e \in Domains(tabs) : TabsAt(tabs, e) <= TabsAt(tabs, d) }

\* C18: when no category scores, the label is the title-cased name of a
\* domain that occurs most often among the group's tabs, or the placeholder
\* when no tab has a domain.
C18_FallbackLabel ==
    Labeled =>
        \A g \in 1..Len(batch.labeled) :
            LET tabs == batch.labeled[g].tabs
            IN  ~Scoring(tabs) =>
                  IF Domains(tabs) = { }
                  THEN batch.labeled[g].label = "<bookmark> Group"
                  ELSE \E d \in MostCommon(tabs) :
                          batch.labeled[g].label = "<globe> " \o TitleCase(d)

-----------------------------------------------------------------------------
(* Properties of the domain fallback (SpecDomains) *)

DomainsGrouped == bg.pc = "done" /\ bg.op = "groupTabsByDomain"

\* a hostname with a leading 'www.' removed
StripLeadingWww(hostname) ==
    CASE hostname = "www.github.com" -> "github.com"
      [] hostname = "www.vuejs.org"  -> "vuejs.org"
      [] OTHER                       -> hostname

\* the registrable domain of a tab; a tab whose url does not parse has none
RegistrableDomain(tab) ==
    IF UrlValid(tab.url) THEN StripLeadingWww(Hostname(tab.url)) ELSE Null

\* C19: the groups of groupTabsByDomain have at least 2 tabs each, all of
\* one registrable domain; tabs of one domain are never in different
\* groups; no tab is in two groups; groups come in descending tab count.
C19_DomainGroups ==
    DomainsGrouped =>
        LET groups == bg.grouped
        IN  /\ \A g \in 1..Len(groups) :
                  /\ Len(groups[g].tabs) >= 2
                  /\ groups[g].count = Len(groups[g].tabs)
                  /\ \A a, b \in 1..Len(groups[g].tabs) :
                        /\ RegistrableDomain(groups[g].tabs[a]) =
                              RegistrableDomain(groups[g].tabs[b])
                        /\ a # b => groups[g].tabs[a] # groups[g].tabs[b]
            /\ \A g, h \in 1..Len(groups) :
                  g # h =>
                     \A a \in 1..Len(groups[g].tabs), b \in 1..Len(groups[h].tabs) :
                        /\ groups[g].tabs[a] # groups[h].tabs[b]
                        /\ RegistrableDomain(groups[g].tabs[a]) #
                              RegistrableDomain(groups[h].tabs[b])
            /\ \A g \in 1..Len(groups) :
                  g > 1 => groups[g - 1].count >= groups[g].count

-----------------------------------------------------------------------------
(* Properties of generateEmbedding (SpecCache) *)

-----------------------------------------------------------------------------
(* Properties of the AI status (SpecBackground) *)

\* C21: TabManager.offscreenReady is true only while the offscreen document
\* exists, its processor is in READY and it has sent 'ai:ready'.
C21_ReadyMeansReady ==
    bg.offscreenReady =>
        /\ bg.doc
        /\ currentState = READY
        /\ Sent("ai:ready") # { }

-----------------------------------------------------------------------------
(* Properties of the milestones (Spec) *)

\* C22: a stage is the current state only if its milestone validation
\* passes.  The validators read the details of the transition, which are
\* merged into stateDetails, this.session, this.tokenizerData and ort.env,
\* none of which changes while the stage is current.
C22_ValidatedTransitions ==
    validateMilestone(currentState, stateDetails, session, tokenizerData)

\* C23: with a session whose output-name list is empty, currentState is
\* never TOKENIZER_READY, WARMED_UP or READY.
C23_EmptyOutputsRejected ==
    (session # NoSession /\ session.outputNames = << >>) =>
        currentState \notin { TOKENIZER_READY, WARMED_UP, READY }

-----------------------------------------------------------------------------
(* The greedy pass (SpecBatch) *)

\* the clusters of an answered request as index lists: the emitted groups
\* and, for every item in no group, the item alone
Clusters ==
    { batch.result.groups[g].indices : g \in 1..Len(batch.result.groups) } \cup
    { << i >> : i \in { k \in 1..Len(batch.tabs) :
                          \A g \in 1..Len(batch.result.groups) :
                             \A m \in 1..Len(batch.result.groups[g].indices) :
                                batch.result.groups[g].indices[m] # k } }

Holds(c, j) == \E m \in 1..Len(c) : c[m] = j

\* the members cluster c has when item j is examined
MembersBefore(c, j) ==
    LET Earlier(m) == m < j IN SelectSeq(c, Earlier)

\* the mean similarity of item j to those members exceeds the threshold
Admits(c, j) ==
    Exceeds(calculateAverageSimilarity(batch.embeddings[j],
               [ k \in 1..Len(MembersBefore(c, j)) |->
                   batch.embeddings[MembersBefore(c, j)[k]] ]),
            batch.threshold)

\* the similarity of item j to the seed of c alone exceeds the threshold
SeedAdmits(c, j) ==
    cosineSimilarity(batch.embeddings[j], batch.embeddings[c[1]]) >
        batch.threshold

\* item j is still unassigned when the seed of cluster c scans
FreeFor(c, j) == \A d \in Clusters : Holds(d, j) => d[1] >= c[1]

\* C24: the result is the greedy single pass.  Every item is in exactly
\* one cluster, clusters list their items in ascending order, and for the
\* seed of a cluster every later item still unassigned at its scan joins
\* if and only if its mean similarity to the members the cluster has at
\* that moment exceeds the threshold.
C24_GreedySinglePass ==
    Answered =>
        /\ \A j \in 1..Len(batch.tabs) :
              Cardinality({ c \in Clusters : Holds(c, j) }) = 1
        /\ \A c \in Clusters :
              /\ \A m \in 2..Len(c) : c[m - 1] < c[m]
              /\ \A j \in 1..Len(batch.tabs) :
                    (j > c[1] /\ FreeFor(c, j)) => (Holds(c, j) <=> Admits(c, j))

\* C24 witness: an item was refused by a group on the mean over seed and
\* earlier member although its similarity to the seed alone exceeds the
\* threshold
C24_Witness ==
    /\ Answered
    /\ \E c \in Clusters, j \in 1..Len(batch.tabs) :
          /\ Len(MembersBefore(c, j)) >= 2
          /\ j > c[1] /\ FreeFor(c, j)
          /\ ~Holds(c, j)
          /\ SeedAdmits(c, j)

\* the embedding the warm-up got: generateEmbedding('warmup test') returns
\* what the cache holds for the text afterwards, or null
WarmUpGood(cache) ==
    /\ CacheHas(cache, "warmup test")
    /\ CacheGet(cache, "warmup test") # NullEmbedding
    /\ CacheGet(cache, "warmup test").dim = EmbeddingDim

C25_ReadyInvariant ==
    currentState = READY =>
        /\ session # NoSession
        /\ tokenizerData # Null
        /\ modelReady
        /\ WarmUpGood(embeddingCache)
        /\ runs[Len(runs)].status = "resolved"

C25_WarmUpStep ==
    (initPc = "warmUp" /\ initPc' # "warmUp") =>
        IF WarmUpGood(embeddingCache')
        THEN currentState' = READY
        ELSE /\ currentState' = ERROR
             /\ \A i \in (Len(sent) + 1)..Len(sent') :
                   sent'[i].type = "ai:status" => sent'[i].stage = ERROR

\* C25: in READY the session and the tokenizer are loaded, modelReady is
\* true and the warm-up of the attempt returned an embedding of 384
\* elements; a warm-up that returns null or another length takes the
\* attempt to ERROR without passing WARMED_UP or READY.
C25_ReadyAfterWarmUp == [] C25_ReadyInvariant /\ [][C25_WarmUpStep]_vars

\* C25 witness: READY reached by a second attempt, after a first attempt
\* failed at its warm-up
C25_Witness ==
    /\ currentState = READY
    /\ Len(runs) = 2
    /\ runs[1].status = "rejected" /\ runs[1].failed = WARMED_UP
    /\ WarmUpGood(embeddingCache)

\* C26: modelReady is true only in TOKENIZER_READY, WARMED_UP and READY, so
\* generateEmbedding throws 'AI model not ready' in every other state.
C26_ModelReadyOnlyWhenLoaded ==
    currentState \in { BOOT, ORT_CONFIGURED, WASM_READY, SESSION_READY, ERROR }
        => (~modelReady /\ ModelNotReady)

\* C29: every transitionToState emits one 'ai:status' carrying the new
\* state, in the order of the transitions, and the emission never throws
\* into performInitialization, whatever the messaging transport does.
C29_Emission ==
    LET trace == StateTrace
    IN  /\ \A i \in Sent("ai:status") :
               /\ ~sent[i].threw
               /\ sent[i].handed <=> model.transport # "missing"
               /\ sent[i].origin = "broadcastStateChange"
        /\ trace[Len(trace)].stage = currentState
        /\ \A k \in 2..Len(trace) :
               LET a == trace[k - 1]
                   b == trace[k]
               IN  \/ b.stage = ERROR /\ b.run = a.run
                   \/ b.stage = BOOT /\ b.run = a.run + 1
                   \/ /\ b.run = a.run
                      /\ a.stage # ERROR
                      /\ StageIndex(b.stage, 1) = StageIndex(a.stage, 1) + 1

C29_Step ==
    (sent' # sent \/ currentState' # currentState) =>
        LET old == StateTrace
            new == StateTrace'
        IN  /\ Len(new) >= Len(old)
            /\ SubSeq(new, 1, Len(old)) = old
            /\ currentState' # currentState => Len(new) > Len(old)

C29_StatusPerTransition == [] C29_Emission /\ [][C29_Step]_vars

C29_Witness ==
    /\ model.transport = "missing"
    /\ currentState = READY
    /\ Len(runs) = 2
    /\ Cardinality(Sent("ai:status")) >= 12

\* C30: a failed probe in verifyWASMFiles does not abort the attempt: it
\* goes on to WASM_READY and to loading the model, and no attempt ever
\* fails at the WASM_READY stage.
C30_NoFailure ==
    \A r \in 1..Len(runs) : runs[r].failed # WASM_READY

C30_Step ==
    (initPc = "verifyWASMFiles" /\ initPc' # initPc) =>
        /\ currentState' = WASM_READY
        /\ initPc' = "loadModel"
        /\ runs' = runs
        /\ Sent("ai:error")' = Sent("ai:error")

C30_ProbeFailureIgnored == [] C30_NoFailure /\ [][C30_Step]_vars

C30_Witness ==
    /\ model.wasm = "rejected"
    /\ currentState = WASM_READY
    /\ initPc = "loadModel"
    /\ runs[ThisRun].status = "pending"

-----------------------------------------------------------------------------
(* Failed items and cohesion (SpecBatch) *)

\* C27: an item whose inference failed carries the zero vector, whose cosine
\* similarity with every item is 0, and it is a member of no emitted group,
\* neither as the seed nor as an admitted candidate.
C27_FailedItemUngrouped ==
    Answered =>
        \A k \in 1..Len(batch.failed) :
            batch.failed[k] =>
                /\ batch.threshold >= 0
                /\ \A j \in 1..Len(batch.embeddings) :
                      /\ cosineSimilarity(batch.embeddings[k],
                                          batch.embeddings[j]) = 0
                      /\ cosineSimilarity(batch.embeddings[j],
                                          batch.embeddings[k]) = 0
                /\ \A g \in 1..Len(batch.result.groups) :
                      ~Holds(batch.result.groups[g].indices, k)

\* C27 witness: the first item failed and seeded nothing, a later seed
\* formed a group, and an item after that seed failed too
C27_Witness ==
    /\ Answered
    /\ Len(batch.result.groups) >= 1
    /\ batch.failed[1]
    /\ \E k \in 1..Len(batch.failed) :
          batch.failed[k] /\ k > batch.result.groups[1].indices[1]

\* the sum of cosineSimilarity over the unordered pairs of es: the pairs
\* of the first element with each later one, then the pairs of the rest
RECURSIVE PairSum(_)
PairSum(es) ==
    IF Len(es) < 2 THEN 0
    ELSE SumSeq([ j \in 1..Len(es) - 1 |-> cosineSimilarity(es[1], es[j + 1]) ])
         + PairSum(Tail(es))

\* C28: calculateGroupCohesion of k >= 2 embeddings is the sum of
\* cosineSimilarity over the k(k-1)/2 unordered pairs, each counted once,
\* divided by k(k-1)/2; of fewer than 2 embeddings it is 1.0.
C28_MeanPairwise ==
    Answered =>
        /\ \A g \in 1..Len(batch.result.groups) :
              LET es == batch.result.groups[g].embeddings
                  k  == Len(es)
              IN  /\ k >= 2
                  /\ calculateGroupCohesion(es) =
                        [ num |-> PairSum(es), den |-> (k * (k - 1)) \div 2 ]
                  /\ batch.labeled[g].confidence = calculateGroupCohesion(es)
        /\ calculateGroupCohesion(<< >>) = [ num |-> SimScale, den |-> 1 ]
        /\ \A i \in 1..Len(batch.embeddings) :
              calculateGroupCohesion(<< batch.embeddings[i] >>) =
                  [ num |-> SimScale, den |-> 1 ]

\* C28 witness: a labelled group of three members whose pairs differ in
\* similarity
C28_Witness ==
    /\ Answered
    /\ \E g \in 1..Len(batch.result.groups) :
          LET es == batch.result.groups[g].embeddings
          IN  /\ Len(es) >= 3
              /\ cosineSimilarity(es[1], es[2]) # cosineSimilarity(es[2], es[3])
              /\ batch.labeled[g].confidence.den = 3

-----------------------------------------------------------------------------
(* Properties of the message handler (SpecMessages) *)

\* the generateEmbedding calls suspended at session.run: those of the
\* requests and of the warm-up, and the one of the running batch
Suspended ==
    { inflight[i] : i \in 1..Len(inflight) } \cup
    IF batch.pc = "embedding" THEN { batch.call } ELSE { }

\* a step of the initialization sequence
InitializationStep == initPc' # initPc \/ runs' # runs

\* C31: handling a message other than INIT_AI leaves currentState and
\* stateDetails unchanged; embeddingCache changes only by the cache write
\* of a generateEmbedding call; clustering, labelling and cohesion change
\* neither.
C31_Step ==
    /\ (currentState' # currentState \/ stateDetails' # stateDetails)
          => InitializationStep
    /\ embeddingCache' # embeddingCache =>
          \E e \in Suspended :
              /\ ~e.cached
              /\ embeddingCache' =
                    CacheWrite(embeddingCache, e.text,
                               ComputeEmbedding(e.text, e.hidden))
    /\ (batch'.pc = "done" /\ batch.pc # "done") =>
          /\ currentState' = currentState
          /\ stateDetails' = stateDetails
          /\ \A i \in 1..Len(embeddingCache') :
                \/ embeddingCache'[i].key = batch.call.text
                \/ \E j \in 1..Len(embeddingCache) :
                      embeddingCache[j] = embeddingCache'[i]

C31_HandlersKeepState == [][C31_Step]_vars

\* C31 witness: a PROCESS_TABS request was clustered and labelled and an
\* embedding request was answered, in READY
C31_Witness ==
    /\ currentState = READY
    /\ batch.pc = "done" /\ batch.success
    /\ Len(batch.labeled) >= 1
    /\ returned.last.how = "miss"
    /\ Len(embeddingCache) >= 4

-----------------------------------------------------------------------------
(* Properties of the normalisation (SpecNormalize) *)

\* v is pooled with every component divided by norm, to the resolution of
\* the representation
DividedBy(v, pooled, norm) ==
    /\ Len(v) = Len(pooled)
    /\ \A i \in 1..Len(pooled) :
          /\ v[i] * norm <= pooled[i] * Unit
          /\ pooled[i] * Unit < (v[i] + 1) * norm

\* v is what the normalisation has to give for pooled
Normalized(v, pooled) ==
    LET norm == Sqrt(Dot(pooled, pooled))
    IN  IF norm = 0
        THEN v = pooled /\ \A i \in 1..Len(v) : v[i] = 0
        ELSE DividedBy(v, pooled, norm) /\ Sqrt(Dot(v, v)) = Unit

\* C32: the vector generateEmbedding computes is the mean-pooled vector
\* itself, all zeros, when its norm is 0 (nothing is divided), and
\* otherwise the mean-pooled vector divided by its norm, of unit length.
C32_NormalizedOrZero ==
    /\ \A i \in 1..Len(embeddingCache) :
          Normalized(embeddingCache[i].value.lead,
                     model.pooled[embeddingCache[i].key])
    /\ returned.last.value # NullEmbedding =>
          Normalized(returned.last.value.lead, model.pooled[returned.last.text])

\* C32 witness: an embedding of the vector of zeros and an embedding of a
\* vector that the division changed were computed
C32_Witness ==
    /\ returned.last.how = "miss"
    /\ model.pooled[returned.last.text] = << 0, 0 >>
    /\ returned.last.value.lead = << 0, 0 >>
    /\ \E i \in 1..Len(embeddingCache) :
          /\ model.pooled[embeddingCache[i].key] = << 6, 8 >>
          /\ embeddingCache[i].value.lead = << 3, 4 >>

-----------------------------------------------------------------------------
(* Properties of the tokenization (SpecTokenize) *)

\* the maximum sequence length: 510 content tokens and the two boundary
\* tokens
MaxSequence == MaxWords + 2

\* C33: tokenize returns, with or without a vocabulary, a sequence that
\* starts with 101, ends with 102 and is never longer than the maximum
\* sequence length.
C33_BoundedSequence ==
    \A i \in 1..Len(inflight) :
        inflight[i].kind = "tokenize" =>
            /\ Len(inflight[i].tokens) >= 2
            /\ Head(inflight[i].tokens) = CLS
            /\ inflight[i].tokens[Len(inflight[i].tokens)] = SEP
            /\ Len(inflight[i].tokens) <= MaxSequence

-----------------------------------------------------------------------------
(* Retry on visibility (Spec) *)

\* the initialization that startInitialization started has failed and its
\* catch block has run
StartFailed ==
    /\ initStarted
    /\ ~initCompleted
    /\ callers[StartCaller].pos = "done"
    /\ callers[StartCaller].outcome = "rejected"
    /\ currentState \in { ERROR, BOOT }
    /\ ~initInProgress
    /\ ~MicrotaskQueued

\* C34: after a failed initialization, a visibilitychange to 'visible'
\* starts a new attempt: the handler changes the state of the document
\* (initialize runs again and currentState leaves ERROR).
C34_VisibilityRetries ==
    StartFailed => ENABLED << VisibilityChange >>_vars

-----------------------------------------------------------------------------
(* Waiting for 'ai:ready' (SpecBackground) *)

\* the 'ai:ready' of the living document has reached the service worker
ReadyDelivered ==
    /\ bg.doc
    /\ currentState = READY
    /\ \E i \in Sent("ai:ready") : i <= bg.delivered

\* the 90 s timer of initializeOffscreen fires: the wait ends in the catch
\* block without a message being delivered
TimesOut ==
    /\ bg.listening
    /\ bg'.pc = "init:store"
    /\ ~bg'.aiMode
    /\ bg'.delivered = bg.delivered

\* C35: once the document it created is READY and its 'ai:ready' has
\* arrived, initializeOffscreen does not time out and disable AI mode,
\* wherever the message falls relative to the 100 ms wait and the
\* registration of the listener.
C35_Step == TimesOut => ~ReadyDelivered

C35_ReadyIsNotMissed == [][C35_Step]_vars

-----------------------------------------------------------------------------
(* What the cache holds (SpecMessages) *)

\* every entry of the cache is the vector inference computes for its key
OnlyInferred(cache) ==
    \A k \in 1..Len(cache) :
        cache[k].value = ComputeEmbedding(cache[k].key, model.hidden)

\* this step is a return of generateEmbedding to a message handler
RequestReturns == returned' # returned

\* this step is a return of generateEmbedding to generateEmbeddings
BatchReturns ==
    /\ batch.pc = "embedding"
    /\ Len(batch'.failed) = Len(batch.failed) + 1

\* C36: the cache holds only vectors of successful inferences.  Every
\* entry is the vector computed for its key (never the zero vector that
\* generateEmbeddings substitutes); a call that returns null, to a message
\* handler or to generateEmbeddings, leaves the cache as it was, and the
\* batch receives the zero vector without the cache receiving it; a call
\* for a text the cache does not hold is never answered as a hit: it ends
\* in a vector computed by inference or in null.
C36_Step ==
    /\ (RequestReturns /\ returned'.last.how = "failed") =>
          /\ returned'.last.value = NullEmbedding
          /\ embeddingCache' = embeddingCache
    /\ (BatchReturns /\ batch'.failed[Len(batch'.failed)]) =>
          /\ batch'.embeddings[Len(batch'.failed)] = ZeroVector
          /\ embeddingCache' = embeddingCache
          /\ ~CacheHas(embeddingCache', batch.call.text)
    /\ (RequestReturns /\ ~CacheHas(embeddingCache, returned'.last.text)) =>
          /\ returned'.last.how \in { "failed", "miss", "recomputed" }
          /\ returned'.last.value # NullEmbedding =>
                returned'.last.value =
                   ComputeEmbedding(returned'.last.text, model.hidden)
    /\ (BatchReturns /\ ~batch.call.cached
          /\ ~batch'.failed[Len(batch'.failed)]) =>
          batch'.embeddings[Len(batch'.failed)] =
             ComputeEmbedding(batch.call.text, model.hidden)

C36_CacheHoldsInferences ==
    /\ [] (OnlyInferred(embeddingCache)
            /\ \A k \in 1..Len(embeddingCache) :
                  embeddingCache[k].value # ZeroVector)
    /\ [][C36_Step]_vars

\* C36 witness: an inference for a text failed and the same text was
\* requested again, which ran inference and stored its vector; a batch
\* holds the zero vector for a tab whose text the cache does not have
C36_Witness ==
    /\ returned.last.retry
    /\ returned.last.how = "miss"
    /\ CacheHas(embeddingCache, returned.last.text)
    /\ CacheGet(embeddingCache, returned.last.text) = returned.last.value
    /\ batch.pc = "done"
    /\ \E k \in 1..Len(batch.failed) :
          /\ batch.failed[k]
          /\ batch.embeddings[k] = ZeroVector
          /\ ~CacheHas(embeddingCache, batch.texts[k])

-----------------------------------------------------------------------------
(* Errors of sendMessage (SpecSendMessage) *)

\* the type the transport produced for call c: that of the error its
\* promise was rejected with
TransportType(c) == c.inner.value.type

\* C37: sendMessage rejects with the type the transport produced: TIMEOUT
\* after the timer fired, TAB_ACCESS_ERROR after a tab send reported
\* chrome.runtime.lastError, the responder's type after a response with an
\* error; and its promise, once settled, stays as it was settled, also
\* when the response arrives after the timeout.
C37_Types ==
    \A i \in SendCalls :
       LET c == inflight[i]
       IN  /\ c.outer.state = "rejected" =>
                /\ c.inner.state = "rejected"
                /\ c.outer.value.name = "MessageError"
                /\ c.outer.value.type = TransportType(c)
                /\ c.timer = "fired" => c.outer.value.type = "TIMEOUT"
                /\ (c.timer # "fired" /\ c.response = "lastError"
                      /\ c.target = "tab")
                      => c.outer.value.type = "TAB_ACCESS_ERROR"
           /\ c.outer.state = "resolved" => c.inner.state = "resolved"

C37_SettledOnce ==
    \A i \in SendCalls :
       /\ inflight[i].inner.state # "pending" =>
             inflight'[i].inner = inflight[i].inner
       /\ inflight[i].outer.state # "pending" =>
             inflight'[i].outer = inflight[i].outer

C37_TransportErrorTypes == [] C37_Types /\ [][C37_SettledOnce]_vars

-----------------------------------------------------------------------------
(* Mutual exclusion of sortTabs (SpecSortTabs) *)

\* the calls that passed the guard and have not returned
ActiveSorts == { i \in SortCalls : inflight[i].pc # "done" }

\* C38: sortTabs is mutually exclusive.  At most one call is past the
\* guard; a call made while one is in progress has returned 'Already
\* processing tabs' without analysing or moving a tab and without touching
\* the flag; isProcessing is true exactly while a call that set it has not
\* returned, whatever its outcome (success, no groups, exception), so a
\* call made after the running one returned passes the guard.
C38_Exclusive ==
    /\ Cardinality(ActiveSorts) <= 1
    /\ bg.isProcessing <=> ActiveSorts # { }
    /\ \A i \in SortCalls :
          LET c == inflight[i]
          IN  /\ (c.pc = "done" /\ ~c.held) =>
                    /\ ~c.success /\ c.error = AlreadyProcessing
                    /\ ~c.analysed /\ ~c.moved
                    /\ \E j \in 1..(i - 1) : inflight[j].held
              /\ (c.pc = "done" /\ c.held) => c.error # AlreadyProcessing
              /\ c.moved => c.analysed /\ c.held

C38_Step ==
    Len(inflight') > Len(inflight) =>
       LET c == inflight'[Len(inflight')]
       IN  IF ActiveSorts # { }
           THEN c.pc = "done" /\ c.error = AlreadyProcessing /\ bg' = bg
           ELSE c.held /\ c.pc # "done"

C38_MutualExclusion == [] C38_Exclusive /\ [][C38_Step]_vars

\* C38 witness: a call was refused while the first was in progress, the
\* first ended in its catch block, and a call made afterwards sorted the
\* tabs; the flag is down again
C38_Witness ==
    /\ Len(inflight) = 3
    /\ inflight[1].held /\ inflight[1].pc = "done"
    /\ ~inflight[1].success /\ inflight[1].error = "analysis failed"
    /\ inflight[2].error = AlreadyProcessing
    /\ inflight[3].held /\ inflight[3].success /\ inflight[3].moved
    /\ ~bg.isProcessing

====
